---- MODULE Spec2Model ----
(***************************************************************************)
(* The Rhizome wire protocol: the version-1 frame codec (EncodeFrame,      *)
(* DecodeFrame and the primitive readers and writers under them), the      *)
(* ConnResponder that serialises writes onto one connection, and the       *)
(* response path (EncodeResponseV1, EncodeResponse, RespondWithAck).       *)
(*                                                                         *)
(* Go values are modelled as follows.  A byte is a number in 0..255, a     *)
(* string is the sequence of its bytes, a []byte is a record               *)
(* [isNil, bytes], a pointer is a sequence of length 0 (nil) or 1, an      *)
(* error is a record whose kind is "nil" for the nil error.                *)
(*                                                                         *)
(* The state keeps a frame, a line and a payload in pages of PageSize      *)
(* bytes (Page, Unpage), which keeps a state with a payload of 65535 bytes *)
(* printable; the codec itself works on the plain byte sequences.          *)
(***************************************************************************)
EXTENDS Integers, Sequences, FiniteSets, TLC

VARIABLES
    obj,        \* the *Object handed to EncodeFrame (its payload in pages)
    encRes,     \* what EncodeFrame returned: [called, bytes (in pages), err]
    line,       \* the []byte handed to DecodeFrame, in pages
    resp,       \* the *ConnResponder handed to DecodeFrame
    decRes,     \* what DecodeFrame returned: [called, obj, err, panic]
    reEnc,      \* what EncodeFrame returned for the decoded object
    heap,       \* the Responses allocated so far; an address is an index
    objs,       \* the Objects allocated so far, each with the address of its Response
    sess,       \* the calls one goroutine made on them, in order
    mu,         \* ConnResponder.mu of every responder: <<>> free, <<t>> held
    wpc,        \* where each caller of ConnResponder.Write stands
    wcr,        \* the responder each caller writes on
    wbuf,       \* the bytes each caller passes to Write
    wsent,      \* how many of its bytes the transport has taken from a caller
    wret,       \* the error each Write call returned
    conn,       \* the byte stream each connection has received
    inFlight,   \* the transport writes in progress on each connection
    lockOrder,  \* the callers of each responder in the order they got the lock
    attempts,   \* how many transport writes each caller has started
    connRet,    \* what the transport write of each caller returned: <<>> or <<err>>
    respRes,    \* what EncodeResponseV1 returned: [called, response, bytes]
    encRespRes, \* what EncodeResponse returned, function and method, for an object
    ackIn,      \* the object and the ack of each caller's RespondWithAck call
    ackObj,     \* the object of each caller's RespondWithAck call, as it is now
    ackPc,      \* where each caller of RespondWithAck stands
    ackRet      \* what each RespondWithAck call returned: [err, panic]

frameVars == <<obj, encRes, line, resp, decRes, reEnc>>
sessVars == <<heap, objs, sess>>
codecVars == <<obj, encRes, line, resp, decRes, reEnc, heap, objs, sess>>
writeVars == <<mu, wpc, wcr, wbuf, wsent, wret, conn, inFlight, lockOrder, attempts,
              connRet>>
ackVars == <<respRes, encRespRes, ackIn, ackObj, ackPc, ackRet>>
vars == <<obj, encRes, line, resp, decRes, reEnc, heap, objs, sess,
          mu, wpc, wcr, wbuf, wsent, wret, conn, inFlight, lockOrder, attempts,
          connRet, respRes, encRespRes, ackIn, ackObj, ackPc, ackRet>>

----------------------------------------------------------------------------
(* Program constants.                                                      *)

ProtocolV1 == 1
AckUnknown == 0
BytesInKilobyte == 1024
u8Limit == 255
u16Limit == 64 * BytesInKilobyte - 1

(* Bounds of the model.                                                    *)

MaxStrLen == 2       \* the short uid and argument strings have 0..MaxStrLen bytes
MaxPayloadLen == 2   \* the short payloads have 0..MaxPayloadLen bytes
MaxExtra == 2        \* up to MaxExtra bytes are appended after a frame
MaxFullCut == 24     \* frames up to this length are truncated at every length
NWriters == 3        \* the goroutines that call Write concurrently
MaxChunkLen == 2     \* the longest chunk a caller writes
PageSize == 256      \* the bytes in one page of a stored byte sequence

----------------------------------------------------------------------------
(* Go values.                                                              *)

uint8(n) == n % 256
uint16(n) == n % 65536

Rep(b, n) == [i \in 1..n |-> b]

NilPtr == <<>>
Ptr(x) == <<x>>
Deref(p) == p[1]

NilSlice == [isNil |-> TRUE, bytes |-> <<>>]
Slice(b) == [isNil |-> FALSE, bytes |-> b]

----------------------------------------------------------------------------
(* Byte sequences as the state stores them: cut into pages of PageSize     *)
(* bytes, the last page holding the rest.  Two sequences are equal exactly *)
(* when their pages are.                                                   *)

Min(a, b) == IF a < b THEN a ELSE b

Page(b) ==
    [j \in 1..((Len(b) + PageSize - 1) \div PageSize) |->
        SubSeq(b, (j - 1) * PageSize + 1, Min(j * PageSize, Len(b)))]

RECURSIVE UnpageRange(_, _, _)
UnpageRange(p, lo, hi) ==
    IF lo > hi THEN <<>>
    ELSE IF lo = hi THEN p[lo]
    ELSE UnpageRange(p, lo, (lo + hi) \div 2)
         \o UnpageRange(p, (lo + hi) \div 2 + 1, hi)

Unpage(p) == UnpageRange(p, 1, Len(p))

\* The length of a paged sequence, its k-th byte, and whether the paged
\* sequence a is a proper prefix of the paged sequence b.
PLen(p) == IF p = <<>> THEN 0 ELSE (Len(p) - 1) * PageSize + Len(p[Len(p)])

PAt(p, k) == p[((k - 1) \div PageSize) + 1][((k - 1) % PageSize) + 1]

PIsProperPrefix(a, b) ==
    /\ PLen(a) < PLen(b)
    /\ \A j \in 1..Len(a) : a[j] = SubSeq(b[j], 1, Len(a[j]))

StoreSlice(sl) == [isNil |-> sl.isNil, bytes |-> Page(sl.bytes)]
LoadSlice(sl) == [isNil |-> sl.isNil, bytes |-> Unpage(sl.bytes)]

\* An object with its payload paged, and back.
StoreObject(o) == [o EXCEPT !.Payload = StoreSlice(o.Payload)]
LoadObject(o) == [o EXCEPT !.Payload = LoadSlice(o.Payload)]

StoreObjectPtr(ptr) == IF ptr = NilPtr THEN NilPtr ELSE Ptr(StoreObject(Deref(ptr)))

NoErr == [kind |-> "nil", field |-> "", cause |-> "", ver |-> 0, addr |-> ""]
Err(k, f, c) == [kind |-> k, field |-> f, cause |-> c, ver |-> 0, addr |-> ""]
ErrVer(k, v) == [kind |-> k, field |-> "version", cause |-> "", ver |-> v, addr |-> ""]
ErrAddr(k, f, c, a) == [kind |-> k, field |-> f, cause |-> c, ver |-> 0, addr |-> a]

(* The connections.  Every ConnResponder wraps one connection, whose       *)
(* addresses are what net.Conn reports.                                    *)

Responders == {"r1", "r2"}

ConnRemoteAddr(cr) == IF cr = "r1" THEN "remote:1" ELSE "remote:2"
ConnLocalAddr(cr) == IF cr = "r1" THEN "local:1" ELSE "local:2"

RemoteAddr(cr) == ConnRemoteAddr(cr)

----------------------------------------------------------------------------
(* encode.go: the primitive writers.  A buffer is the sequence of bytes    *)
(* written so far.                                                         *)

writeU8(buf, n) == Append(buf, n)

\* A writeU16 that puts the low byte first.
writeU16LittleEndian(buf, n) == buf \o <<n % 256, n \div 256>>

writeU16(buf, n) == buf \o <<n \div 256, n % 256>>

\* A writeString8 whose limit is one byte too high.
writeString8OffByOne(buf, s) ==
    IF Len(s) > 256
    THEN [buf |-> buf, err |-> Err("string too long for u8 prefix", "", "")]
    ELSE [buf |-> writeU8(buf, uint8(Len(s))) \o s, err |-> NoErr]

writeString8(buf, s) ==
    IF Len(s) > 255
    THEN [buf |-> buf, err |-> Err("string too long for u8 prefix", "", "")]
    ELSE [buf |-> writeU8(buf, uint8(Len(s))) \o s, err |-> NoErr]

----------------------------------------------------------------------------
(* decode.go: the primitive readers.  A reader is the data with the        *)
(* number of bytes already consumed; binary.Read and io.ReadFull report    *)
(* EOF when nothing is left and unexpected EOF when too little is.         *)

\* A reader that still holds the bytes of the line that failed just before
\* (one reader kept per connection in place of one made per call).
NewReaderKeepsRest(data) ==
    IF sess # <<>> /\ sess[Len(sess)].op = "decode" /\ sess[Len(sess)].err # NoErr
    THEN [data |-> sess[Len(sess)].line \o data, pos |-> 0]
    ELSE [data |-> data, pos |-> 0]

NewReader(data) == [data |-> data, pos |-> 0]

ReaderLen(r) == Len(r.data) - r.pos

ReadFull(r, n) ==
    IF ReaderLen(r) >= n
    THEN [r |-> [r EXCEPT !.pos = r.pos + n],
          val |-> SubSeq(r.data, r.pos + 1, r.pos + n), cause |-> ""]
    ELSE [r |-> [r EXCEPT !.pos = Len(r.data)],
          val |-> <<>>,
          cause |-> IF ReaderLen(r) = 0 THEN "EOF" ELSE "unexpected EOF"]

\* A readU8 that keeps the low seven bits of the byte.
readU8SevenBits(r) ==
    LET Got(b) ==
            IF b.cause # ""
            THEN [r |-> b.r, val |-> 0, err |-> Err("read", "", b.cause)]
            ELSE [r |-> b.r, val |-> b.val[1] % 128, err |-> NoErr]
    IN  Got(ReadFull(r, 1))

readU8(r) ==
    LET Got(b) ==
            IF b.cause # ""
            THEN [r |-> b.r, val |-> 0, err |-> Err("read", "", b.cause)]
            ELSE [r |-> b.r, val |-> b.val[1], err |-> NoErr]
    IN  Got(ReadFull(r, 1))

readU8Len(r) ==
    LET Got(b) ==
            IF b.cause # ""
            THEN [r |-> b.r, val |-> 0, err |-> Err("read length", "", b.cause)]
            ELSE IF b.val[1] > u8Limit
            THEN [r |-> b.r, val |-> 0,
                  err |-> Err("declared length exceeds 255byte safety limit", "", "")]
            ELSE [r |-> b.r, val |-> b.val[1], err |-> NoErr]
    IN  Got(ReadFull(r, 1))

\* A readU16Len that reads the two bytes low byte first.
readU16LenLittleEndian(r) ==
    LET Checked(b, n) ==
            IF n > u16Limit
            THEN [r |-> b.r, val |-> 0,
                  err |-> Err("declared length exceeds 64KB safety limit", "", "")]
            ELSE [r |-> b.r, val |-> n, err |-> NoErr]
        Got(b) ==
            IF b.cause # ""
            THEN [r |-> b.r, val |-> 0, err |-> Err("read length", "", b.cause)]
            ELSE Checked(b, b.val[2] * 256 + b.val[1])
    IN  Got(ReadFull(r, 2))

readU16Len(r) ==
    LET Checked(b, n) ==
            IF n > u16Limit
            THEN [r |-> b.r, val |-> 0,
                  err |-> Err("declared length exceeds 64KB safety limit", "", "")]
            ELSE [r |-> b.r, val |-> n, err |-> NoErr]
        Got(b) ==
            IF b.cause # ""
            THEN [r |-> b.r, val |-> 0, err |-> Err("read length", "", b.cause)]
            ELSE Checked(b, b.val[1] * 256 + b.val[2])
    IN  Got(ReadFull(r, 2))

\* A readStringU8 that takes a declared length of 0 for the end of the
\* input.
readStringU8ZeroIsEOF(r) ==
    LET Filled(b) ==
            IF b.cause # ""
            THEN [r |-> b.r, val |-> <<>>, err |-> Err("read string bytes", "", b.cause)]
            ELSE [r |-> b.r, val |-> b.val, err |-> NoErr]
        Sized(n) ==
            IF n.err # NoErr THEN [r |-> n.r, val |-> <<>>, err |-> n.err]
            ELSE IF n.val = 0
            THEN [r |-> n.r, val |-> <<>>, err |-> Err("read string bytes", "", "EOF")]
            ELSE Filled(ReadFull(n.r, n.val))
    IN  Sized(readU8Len(r))

readStringU8(r) ==
    LET Filled(b) ==
            IF b.cause # ""
            THEN [r |-> b.r, val |-> <<>>, err |-> Err("read string bytes", "", b.cause)]
            ELSE [r |-> b.r, val |-> b.val, err |-> NoErr]
        Sized(n) ==
            IF n.err # NoErr THEN [r |-> n.r, val |-> <<>>, err |-> n.err]
            ELSE IF n.val = 0 THEN [r |-> n.r, val |-> <<>>, err |-> NoErr]
            ELSE Filled(ReadFull(n.r, n.val))
    IN  Sized(readU8Len(r))

\* A readBytesU16 that takes the bytes that are left when fewer are left
\* than declared (a plain Read in place of io.ReadFull).
readBytesU16Partial(r) ==
    LET Filled(b) == [r |-> b.r, val |-> Slice(b.val), err |-> NoErr]
        Sized(n) ==
            IF n.err # NoErr THEN [r |-> n.r, val |-> NilSlice, err |-> n.err]
            ELSE IF n.val = 0 THEN [r |-> n.r, val |-> NilSlice, err |-> NoErr]
            ELSE Filled(ReadFull(n.r, Min(ReaderLen(n.r), n.val)))
    IN  Sized(readU16Len(r))

readBytesU16(r) ==
    LET Filled(b) ==
            IF b.cause # ""
            THEN [r |-> b.r, val |-> NilSlice,
                  err |-> Err("read payload bytes", "", b.cause)]
            ELSE [r |-> b.r, val |-> Slice(b.val), err |-> NoErr]
        Sized(n) ==
            IF n.err # NoErr THEN [r |-> n.r, val |-> NilSlice, err |-> n.err]
            ELSE IF n.val = 0 THEN [r |-> n.r, val |-> NilSlice, err |-> NoErr]
            ELSE Filled(ReadFull(n.r, n.val))
    IN  Sized(readU16Len(r))

----------------------------------------------------------------------------
(* object.go: Response, Object, NewObject.                                 *)

\* A Response built before the uid is known.
ResponseBeforeUID(uid, ack) == [UID |-> <<>>, Ack |-> ack]

Response(uid, ack) == [UID |-> uid, Ack |-> ack]

\* The zero Object with the two fields DecodeFrame sets.
Object(version, responder) ==
    [Version |-> version, Responder |-> responder, Response |-> NilPtr,
     ObjType |-> 0, CmdType |-> 0, AckPlcy |-> 0,
     UID |-> <<>>, Arg1 |-> <<>>, Arg2 |-> <<>>, Arg3 |-> <<>>, Arg4 |-> <<>>,
     PayloadEncoding |-> 0, Payload |-> NilSlice]

NewObject(objType, cmdType, ackPlcy, uid, arg1, arg2, arg3, arg4, payloadEncoding, payload) ==
    [Version |-> ProtocolV1, Responder |-> NilPtr,
     Response |-> Ptr(Response(uid, AckUnknown)),
     ObjType |-> objType, CmdType |-> cmdType, AckPlcy |-> ackPlcy,
     UID |-> uid, Arg1 |-> arg1, Arg2 |-> arg2, Arg3 |-> arg3, Arg4 |-> arg4,
     PayloadEncoding |-> payloadEncoding, Payload |-> payload]

----------------------------------------------------------------------------
(* one.go: encodeV1, and EncodeFrame that dispatches to it.  A result is   *)
(* the returned []byte with the returned error.                            *)

\* encodeV1's bound on the payload, and the bound one byte too high.
PayloadTooLargeOffByOne(o) == Len(o.Payload.bytes) > 64 * BytesInKilobyte

PayloadTooLarge(o) == Len(o.Payload.bytes) > 64 * BytesInKilobyte - 1

\* A failure that returns the buffer as far as it was filled.
EncodeFailKeepsBuffer(e) == [bytes |-> Slice(<<ProtocolV1>>), err |-> e]

EncodeFail(e) == [bytes |-> NilSlice, err |-> e]

encodeV1(o) ==
    LET b0 == writeU8(<<>>, ProtocolV1)
        b1 == writeU8(b0, o.ObjType)
        b2 == writeU8(b1, o.CmdType)
        b3 == writeU8(b2, o.AckPlcy)
        w1 == writeString8(b3, o.UID)
        w2 == writeString8(w1.buf, o.Arg1)
        w3 == writeString8(w2.buf, o.Arg2)
        w4 == writeString8(w3.buf, o.Arg3)
        w5 == writeString8(w4.buf, o.Arg4)
        b4 == writeU8(w5.buf, uint8(o.PayloadEncoding))
        b5 == writeU16(b4, uint16(Len(o.Payload.bytes)))
        b6 == IF Len(o.Payload.bytes) # 0 THEN b5 \o o.Payload.bytes ELSE b5
    IN  IF o.UID = <<>>
        THEN EncodeFail(Err("encodeV1: UID must not be empty", "uid", ""))
        ELSE IF PayloadTooLarge(o)
        THEN EncodeFail(Err("encodeV1: payload too large", "payload", ""))
        ELSE IF w1.err # NoErr THEN EncodeFail([w1.err EXCEPT !.field = "uid"])
        ELSE IF w2.err # NoErr THEN EncodeFail([w2.err EXCEPT !.field = "arg1"])
        ELSE IF w3.err # NoErr THEN EncodeFail([w3.err EXCEPT !.field = "arg2"])
        ELSE IF w4.err # NoErr THEN EncodeFail([w4.err EXCEPT !.field = "arg3"])
        ELSE IF w5.err # NoErr THEN EncodeFail([w5.err EXCEPT !.field = "arg4"])
        ELSE [bytes |-> Slice(b6), err |-> NoErr]

EncodeFrame(o) ==
    IF o.Version = ProtocolV1
    THEN encodeV1(o)
    ELSE EncodeFail(ErrVer("unsupported protocol version", o.Version))

----------------------------------------------------------------------------
(* one.go: decodeV1 and its parse steps.  A parse step returns the reader, *)
(* the object it filled so far, the error, and whether it dereferenced a   *)
(* nil *ConnResponder (a run-time panic).                                  *)

ParseOk(r, o) == [r |-> r, obj |-> o, err |-> NoErr, panic |-> FALSE]
ParseFail(r, o, e) == [r |-> r, obj |-> o, err |-> e, panic |-> FALSE]
ParsePanic(r, o) == [r |-> r, obj |-> o, err |-> NoErr, panic |-> TRUE]

parseBaseHeader(r, cmd) ==
    LET AckRead(c2, c) ==
            IF c.err # NoErr
            THEN ParseFail(c.r, c2, Err("unable to parse u8 field", "AckPolicy", c.err.cause))
            ELSE ParseOk(c.r, [c2 EXCEPT !.AckPlcy = c.val])
        CmdRead(c1, b) ==
            IF b.err # NoErr
            THEN ParseFail(b.r, c1, Err("unable to parse u8 field", "CmdType", b.err.cause))
            ELSE AckRead([c1 EXCEPT !.CmdType = b.val], readU8(b.r))
        ObjRead(a) ==
            IF a.err # NoErr
            THEN ParseFail(a.r, cmd, Err("unable to parse u8 field", "ObjType", a.err.cause))
            ELSE CmdRead([cmd EXCEPT !.ObjType = a.val], readU8(a.r))
    IN  ObjRead(readU8(r))

\* A parseTrackingHeader without the check for the empty uid.
parseTrackingHeaderAnyUID(r, cmd) ==
    LET UIDRead(u) ==
            IF u.err # NoErr
            THEN ParseFail(u.r, cmd, Err("unable to parse string field", "UID", u.err.cause))
            ELSE ParseOk(u.r, [cmd EXCEPT !.UID = u.val])
    IN  UIDRead(readStringU8(r))

parseTrackingHeader(r, cmd) ==
    LET UIDRead(u) ==
            IF u.err # NoErr
            THEN ParseFail(u.r, cmd, Err("unable to parse string field", "UID", u.err.cause))
            ELSE IF u.val = <<>>
            THEN IF cmd.Responder = NilPtr
                 THEN ParsePanic(u.r, cmd)
                 ELSE ParseFail(u.r, cmd,
                          ErrAddr("empty UID field", "UID", "",
                                  ConnLocalAddr(Deref(cmd.Responder))))
            ELSE ParseOk(u.r, [cmd EXCEPT !.UID = u.val])
    IN  UIDRead(readStringU8(r))

parseArgError(pos, fromAddr, err) ==
    ErrAddr("unable to parse argument position", pos, err.cause, fromAddr)

parseArgumentFields(r, cmd) ==
    LET fromAddr == RemoteAddr(Deref(cmd.Responder))
        Arg4Read(c3, a4) ==
            IF a4.err # NoErr THEN ParseFail(a4.r, c3, parseArgError("arg4", fromAddr, a4.err))
            ELSE ParseOk(a4.r, [c3 EXCEPT !.Arg4 = a4.val])
        Arg3Read(c2, a3) ==
            IF a3.err # NoErr THEN ParseFail(a3.r, c2, parseArgError("arg3", fromAddr, a3.err))
            ELSE Arg4Read([c2 EXCEPT !.Arg3 = a3.val], readStringU8(a3.r))
        Arg2Read(c1, a2) ==
            IF a2.err # NoErr THEN ParseFail(a2.r, c1, parseArgError("arg2", fromAddr, a2.err))
            ELSE Arg3Read([c1 EXCEPT !.Arg2 = a2.val], readStringU8(a2.r))
        Arg1Read(a1) ==
            IF cmd.Responder = NilPtr THEN ParsePanic(a1.r, cmd)
            ELSE IF a1.err # NoErr
            THEN ParseFail(a1.r, cmd, parseArgError("arg1", fromAddr, a1.err))
            ELSE Arg2Read([cmd EXCEPT !.Arg1 = a1.val], readStringU8(a1.r))
    IN  Arg1Read(readStringU8(r))

parsePayloadEncoding(r, cmd) ==
    LET EncRead(e) ==
            IF e.err # NoErr
            THEN IF cmd.Responder = NilPtr
                 THEN ParsePanic(e.r, cmd)
                 ELSE ParseFail(e.r, cmd,
                          ErrAddr("unable to parse payload encoding type",
                                  "PayloadEncoding", "",
                                  RemoteAddr(Deref(cmd.Responder))))
            ELSE ParseOk(e.r, [cmd EXCEPT !.PayloadEncoding = e.val])
    IN  EncRead(readU8(r))

\* decodeV1's last check, r.Len() != 0, and a check that lets one byte pass.
UnaccountedDataOffByOne(r) == ReaderLen(r) > 1

UnaccountedData(r) == ReaderLen(r) # 0

\* A failure that returns the object as far as it was filled.
DecodeFailKeepsObject(e) ==
    [obj |-> Ptr(Object(ProtocolV1, NilPtr)), err |-> e, panic |-> FALSE]

DecodeFail(e) == [obj |-> NilPtr, err |-> e, panic |-> FALSE]
DecodePanic == [obj |-> NilPtr, err |-> NoErr, panic |-> TRUE]

decodeV1(data, o) ==
    LET PayloadRead(cmd, p) ==
            IF p.err # NoErr
            THEN IF cmd.Responder = NilPtr
                 THEN DecodePanic
                 ELSE DecodeFail(ErrAddr("Unable to parse payload", "Payload", p.err.cause,
                                         RemoteAddr(Deref(cmd.Responder))))
            ELSE IF UnaccountedData(p.r)
            THEN DecodeFail(Err("unaccounted data in reader", "", ""))
            ELSE [obj |-> Ptr([cmd EXCEPT !.Payload = p.val,
                                          !.Response = Ptr(Response(cmd.UID, AckUnknown))]),
                  err |-> NoErr, panic |-> FALSE]
        EncodingParsed(e) ==
            IF e.panic THEN DecodePanic
            ELSE IF e.err # NoErr THEN DecodeFail(e.err)
            ELSE PayloadRead(e.obj, readBytesU16(e.r))
        ArgumentsParsed(a) ==
            IF a.panic THEN DecodePanic
            ELSE IF a.err # NoErr THEN DecodeFail(a.err)
            ELSE EncodingParsed(parsePayloadEncoding(a.r, a.obj))
        TrackingParsed(t) ==
            IF t.panic THEN DecodePanic
            ELSE IF t.err # NoErr THEN DecodeFail(t.err)
            ELSE ArgumentsParsed(parseArgumentFields(t.r, t.obj))
        BaseParsed(h) ==
            IF h.err # NoErr THEN DecodeFail(h.err)
            ELSE TrackingParsed(parseTrackingHeader(h.r, h.obj))
    IN  BaseParsed(parseBaseHeader(NewReader(data), o))

----------------------------------------------------------------------------
(* object.go: parseProtoVer and DecodeFrame.                               *)

parseProtoVer(data) ==
    IF Len(data) < 1
    THEN [ver |-> 0, rest |-> <<>>, err |-> Err("", "", "unexpected EOF")]
    ELSE [ver |-> data[1], rest |-> SubSeq(data, 2, Len(data)), err |-> NoErr]

\* A DecodeFrame that hands every version from 1 on to decodeV1.
DecodeFrameLaterVersions(ln, rsp) ==
    LET VersionRead(v) ==
            IF v.err # NoErr
            THEN DecodeFail(Err("read protocol version", "version", v.err.cause))
            ELSE IF v.ver >= 1
            THEN decodeV1(v.rest, Object(v.ver, rsp))
            ELSE DecodeFail(ErrVer("unsupported protocol version", v.ver))
    IN  VersionRead(parseProtoVer(ln))

\* A DecodeFrame that decodes the fields before it looks at the version.
DecodeFrameVersionLast(ln, rsp) ==
    LET FieldsRead(v, d) ==
            IF d.panic \/ d.err # NoErr \/ v.ver = 1 THEN d
            ELSE DecodeFail(ErrVer("unsupported protocol version", v.ver))
        VersionRead(v) ==
            IF v.err # NoErr
            THEN DecodeFail(Err("read protocol version", "version", v.err.cause))
            ELSE FieldsRead(v, decodeV1(v.rest, Object(v.ver, rsp)))
    IN  VersionRead(parseProtoVer(ln))

DecodeFrame(ln, rsp) ==
    LET VersionRead(v) ==
            IF v.err # NoErr
            THEN DecodeFail(Err("read protocol version", "version", v.err.cause))
            ELSE IF v.ver = 1
            THEN decodeV1(v.rest, Object(v.ver, rsp))
            ELSE DecodeFail(ErrVer("unsupported protocol version", v.ver))
    IN  VersionRead(parseProtoVer(ln))

----------------------------------------------------------------------------
(* one_test.go: encodeV1MessageFrame, which lays a frame out field by      *)
(* field without encodeV1's validation.  It supplies DecodeFrame with the  *)
(* frames EncodeFrame refuses to build (an empty uid, another version).    *)

encodeV1MessageFrame(version, objType, cmdType, ackPolicy, uid, args, encoding, payload) ==
    LET b0 == writeU8(<<>>, version)
        b1 == writeU8(b0, objType)
        b2 == writeU8(b1, cmdType)
        b3 == writeU8(b2, ackPolicy)
        w0 == writeString8(b3, uid)
        w1 == writeString8(w0.buf, args[1])
        w2 == writeString8(w1.buf, args[2])
        w3 == writeString8(w2.buf, args[3])
        w4 == writeString8(w3.buf, args[4])
        b4 == writeU8(w4.buf, uint8(encoding))
        b5 == writeU16(b4, uint16(Len(payload.bytes)))
    IN  IF w0.err # NoErr THEN EncodeFail(w0.err)
        ELSE IF w1.err # NoErr THEN EncodeFail(w1.err)
        ELSE IF w2.err # NoErr THEN EncodeFail(w2.err)
        ELSE IF w3.err # NoErr THEN EncodeFail(w3.err)
        ELSE IF w4.err # NoErr THEN EncodeFail(w4.err)
        ELSE [bytes |-> Slice(b5 \o payload.bytes), err |-> NoErr]

----------------------------------------------------------------------------
(* The inputs.  The objects vary one aspect at a time: the lengths of the  *)
(* five strings, the payload, the four one-byte fields, the version, and   *)
(* the strings and payloads at and just past the widest length prefix.     *)

Fields == <<"uid", "arg1", "arg2", "arg3", "arg4">>

FieldBase(f) ==
    CASE f = "uid" -> 96 [] f = "arg1" -> 64 [] f = "arg2" -> 48
      [] f = "arg3" -> 32 [] f = "arg4" -> 16 [] OTHER -> 128

\* The n-byte content of field f: every byte differs from its neighbours
\* and from the same position of the other fields.
Str(f, n) == [i \in 1..n |-> (FieldBase(f) + i) % 256]

\* Each string has one of two lengths, chosen field by field.
ShortLens ==
    { [i \in 1..5 |-> IF i \in m THEN l1 ELSE l2] :
        m \in SUBSET (1..5), l1 \in 0..MaxStrLen, l2 \in 0..MaxStrLen }

\* One string at or past the limit of its one-byte prefix, or all at it.
LongLens ==
    { [i \in 1..5 |-> IF i = k THEN n ELSE 1] : k \in 1..5, n \in {u8Limit, u8Limit + 1} }
    \cup { [i \in 1..5 |-> u8Limit] }

ShortPayloads ==
    {NilSlice} \cup { Slice(Str("payload", n)) : n \in 0..MaxPayloadLen }

LongPayloads == { Slice(Str("payload", n)) : n \in {u16Limit, u16Limit + 1} }

HeaderBytes == { <<1, 1, 0, 1>>, <<0, 0, 0, 0>>, <<255, 255, 255, 255>>, <<4, 20, 1, 7>> }

Versions == {0, 1, 2, 255}

MakeObject(version, hdr, lens, payload) ==
    [NewObject(hdr[1], hdr[2], hdr[3],
               Str("uid", lens[1]), Str("arg1", lens[2]), Str("arg2", lens[3]),
               Str("arg3", lens[4]), Str("arg4", lens[5]), hdr[4], payload)
       EXCEPT !.Version = version]

DefaultLens == <<1, 2, 0, 1, 2>>
DefaultHeader == <<4, 20, 1, 7>>
DefaultPayload == Slice(Str("payload", 1))

ObjectInputs ==
    { MakeObject(ProtocolV1, DefaultHeader, l, DefaultPayload) : l \in ShortLens \cup LongLens }
    \cup { MakeObject(ProtocolV1, DefaultHeader, DefaultLens, p) :
             p \in ShortPayloads \cup LongPayloads }
    \cup { MakeObject(ProtocolV1, h, DefaultLens, DefaultPayload) : h \in HeaderBytes }
    \cup { MakeObject(v, DefaultHeader, l, DefaultPayload) :
             v \in Versions, l \in {DefaultLens, <<0, 1, 1, 1, 1>>} }
    \cup { MakeObject(v, DefaultHeader, <<n, u8Limit + 1, 1, 1, 1>>, DefaultPayload) :
             v \in {ProtocolV1, 2}, n \in {0, 1} }

\* The frame encodeV1MessageFrame builds from the fields of an object.
RawFrame(o) ==
    encodeV1MessageFrame(o.Version, o.ObjType, o.CmdType, o.AckPlcy, o.UID,
                         <<o.Arg1, o.Arg2, o.Arg3, o.Arg4>>,
                         o.PayloadEncoding, o.Payload)

Prefix(f, k) == SubSeq(f, 1, k)

\* The lengths a frame is truncated to: every one for a frame of up to
\* MaxFullCut bytes, and for a longer one the first MaxFullCut and the last.
CutPoints(f) ==
    IF Len(f) <= MaxFullCut
    THEN 0..(Len(f) - 1)
    ELSE (0..MaxFullCut) \cup {Len(f) - 3, Len(f) - 2, Len(f) - 1}

Extras == { Rep(b, n) : b \in {0, 1, 255}, n \in 1..MaxExtra }

WithVersion(f, v) == IF f = <<>> THEN <<v>> ELSE [f EXCEPT ![1] = v]

\* A frame as it is, cut short, followed by more bytes, and with its
\* version byte replaced.
Variants(f) ==
    {f}
    \cup { Prefix(f, k) : k \in CutPoints(f) }
    \cup { f \o x : x \in Extras }
    \cup { WithVersion(Prefix(f, k), v) :
             v \in Versions, k \in {1, 2, Len(f)} \cap (1..Len(f)) }

Lines(o, enc) ==
    (IF enc.err = NoErr THEN Variants(Unpage(enc.bytes.bytes)) ELSE {})
    \cup (IF RawFrame(o).err = NoErr THEN Variants(RawFrame(o).bytes.bytes) ELSE {})

DecodeResponders == {NilPtr, Ptr("r1")}

----------------------------------------------------------------------------
(* The frame codec as a state machine: EncodeFrame is applied to an input  *)
(* object, then DecodeFrame to a line derived from it.                     *)

NotCalledEnc == [called |-> FALSE, bytes |-> NilSlice, err |-> NoErr]
NotCalledDec == [called |-> FALSE, obj |-> NilPtr, err |-> NoErr, panic |-> FALSE]

Callers == 1..NWriters

WriteIdle ==
    /\ mu = [r \in Responders |-> <<>>]
    /\ wpc = [t \in Callers |-> "idle"]
    /\ wcr = [t \in Callers |-> "r1"]
    /\ wbuf = [t \in Callers |-> <<>>]
    /\ wsent = [t \in Callers |-> 0]
    /\ wret = [t \in Callers |-> NoErr]
    /\ conn = [r \in Responders |-> <<>>]
    /\ inFlight = [r \in Responders |-> {}]
    /\ lockOrder = [r \in Responders |-> <<>>]
    /\ attempts = [t \in Callers |-> 0]
    /\ connRet = [t \in Callers |-> <<>>]

CodecIdle ==
    /\ encRes = NotCalledEnc
    /\ line = <<>>
    /\ resp = NilPtr
    /\ decRes = NotCalledDec
    /\ reEnc = NotCalledEnc
    /\ heap = <<>>
    /\ objs = <<>>
    /\ sess = <<>>

NotCalledResp == [called |-> FALSE, response |-> [UID |-> <<>>, Ack |-> 0], bytes |-> <<>>]
NotCalledEncResp == [called |-> FALSE, obj |-> NilPtr, fn |-> <<>>, method |-> <<>>]

AckIdle ==
    /\ respRes = NotCalledResp
    /\ encRespRes = NotCalledEncResp
    /\ ackIn = [t \in Callers |-> <<>>]
    /\ ackObj = [t \in Callers |-> NilPtr]
    /\ ackPc = [t \in Callers |-> "idle"]
    /\ ackRet = [t \in Callers |-> <<>>]

Init ==
    /\ obj \in { StoreObject(o) : o \in ObjectInputs }
    /\ CodecIdle
    /\ WriteIdle
    /\ AckIdle

EncodeFrameCall ==
    /\ ~encRes.called
    /\ LET e == EncodeFrame(LoadObject(obj))
       IN  encRes' = [called |-> TRUE, bytes |-> StoreSlice(e.bytes), err |-> e.err]
    /\ UNCHANGED <<obj, line, resp, decRes, reEnc>>
    /\ UNCHANGED sessVars
    /\ UNCHANGED writeVars
    /\ UNCHANGED ackVars

DecodeFrameCall ==
    /\ encRes.called
    /\ ~decRes.called
    /\ \E l \in Lines(LoadObject(obj), encRes), r \in DecodeResponders :
         LET d == DecodeFrame(l, r)
         IN  /\ line' = Page(l)
             /\ resp' = r
             /\ decRes' = [called |-> TRUE, obj |-> StoreObjectPtr(d.obj),
                           err |-> d.err, panic |-> d.panic]
    /\ UNCHANGED <<obj, encRes, reEnc>>
    /\ UNCHANGED sessVars
    /\ UNCHANGED writeVars
    /\ UNCHANGED ackVars

\* EncodeFrame applied to the object DecodeFrame returned.
ReEncodeFrameCall ==
    /\ decRes.called
    /\ decRes.obj # NilPtr
    /\ ~reEnc.called
    /\ LET e == EncodeFrame(LoadObject(Deref(decRes.obj)))
       IN  reEnc' = [called |-> TRUE, bytes |-> StoreSlice(e.bytes), err |-> e.err]
    /\ UNCHANGED <<obj, encRes, line, resp, decRes>>
    /\ UNCHANGED sessVars
    /\ UNCHANGED writeVars
    /\ UNCHANGED ackVars

Next == EncodeFrameCall \/ DecodeFrameCall \/ ReEncodeFrameCall

Spec == Init /\ [][Next]_vars

----------------------------------------------------------------------------
(* responder.go: ConnResponder.Write, called by several goroutines.        *)
(*                                                                         *)
(*     cr.mu.Lock(); defer cr.mu.Unlock(); _, err := cr.C.Write(b)         *)
(*                                                                         *)
(* The transport write is not atomic: it starts, takes the bytes one by    *)
(* one, and returns, with success once it took them all or with an error   *)
(* at any point.                                                           *)

\* The chunk of caller t: a marker no other caller writes.
Marker(t) == [i \in 1..(t % (MaxChunkLen + 1)) |-> 16 * t + i]

\* The errors the transport write fails with.
TransportErrors == { Err("boom", "", "") }

WriteCall(t) ==
    /\ wpc[t] = "idle"
    /\ \E cr \in Responders : wcr' = [wcr EXCEPT ![t] = cr]
    /\ wbuf' = [wbuf EXCEPT ![t] = Marker(t)]
    /\ wpc' = [wpc EXCEPT ![t] = "lock"]
    /\ UNCHANGED <<mu, wsent, wret, conn, inFlight, lockOrder>>
    /\ UNCHANGED <<attempts, connRet>>
    /\ UNCHANGED codecVars
    /\ UNCHANGED ackVars

\* A Lock that does not wait for the mutex to be free.
LockWithoutWaiting(t) ==
    /\ wpc[t] = "lock"
    /\ mu' = [mu EXCEPT ![wcr[t]] = <<t>>]
    /\ lockOrder' = [lockOrder EXCEPT ![wcr[t]] = Append(@, t)]
    /\ wpc' = [wpc EXCEPT ![t] = "write"]
    /\ UNCHANGED <<wcr, wbuf, wsent, wret, conn, inFlight>>
    /\ UNCHANGED <<attempts, connRet>>
    /\ UNCHANGED codecVars
    /\ UNCHANGED ackVars

\* A Lock on one mutex shared by all responders (a package-level mutex in
\* place of the field of the ConnResponder).
LockSharedMutex(t) ==
    /\ wpc[t] = "lock"
    /\ \A r \in Responders : mu[r] = <<>>
    /\ mu' = [mu EXCEPT ![wcr[t]] = <<t>>]
    /\ lockOrder' = [lockOrder EXCEPT ![wcr[t]] = Append(@, t)]
    /\ wpc' = [wpc EXCEPT ![t] = "write"]
    /\ UNCHANGED <<wcr, wbuf, wsent, wret, conn, inFlight>>
    /\ UNCHANGED <<attempts, connRet>>
    /\ UNCHANGED codecVars
    /\ UNCHANGED ackVars

Lock(t) ==
    /\ wpc[t] = "lock"
    /\ mu[wcr[t]] = <<>>
    /\ mu' = [mu EXCEPT ![wcr[t]] = <<t>>]
    /\ lockOrder' = [lockOrder EXCEPT ![wcr[t]] = Append(@, t)]
    /\ wpc' = [wpc EXCEPT ![t] = "write"]
    /\ UNCHANGED <<wcr, wbuf, wsent, wret, conn, inFlight>>
    /\ UNCHANGED <<attempts, connRet>>
    /\ UNCHANGED codecVars
    /\ UNCHANGED ackVars

\* A transport write that starts with the mutex released (Unlock called
\* before the write instead of deferred).
ConnWriteStartUnlocked(t) ==
    /\ wpc[t] = "write"
    /\ mu' = [mu EXCEPT ![wcr[t]] = <<>>]
    /\ inFlight' = [inFlight EXCEPT ![wcr[t]] = @ \cup {t}]
    /\ wpc' = [wpc EXCEPT ![t] = "writing"]
    /\ attempts' = [attempts EXCEPT ![t] = @ + 1]
    /\ UNCHANGED connRet
    /\ UNCHANGED <<wcr, wbuf, wsent, wret, conn, lockOrder>>
    /\ UNCHANGED codecVars
    /\ UNCHANGED ackVars

ConnWriteStart(t) ==
    /\ wpc[t] = "write"
    /\ inFlight' = [inFlight EXCEPT ![wcr[t]] = @ \cup {t}]
    /\ wpc' = [wpc EXCEPT ![t] = "writing"]
    /\ attempts' = [attempts EXCEPT ![t] = @ + 1]
    /\ UNCHANGED connRet
    /\ UNCHANGED <<mu, wcr, wbuf, wsent, wret, conn, lockOrder>>
    /\ UNCHANGED codecVars
    /\ UNCHANGED ackVars

ConnWriteByte(t) ==
    /\ wpc[t] = "writing"
    /\ wsent[t] < Len(wbuf[t])
    /\ conn' = [conn EXCEPT ![wcr[t]] = Append(@, wbuf[t][wsent[t] + 1])]
    /\ wsent' = [wsent EXCEPT ![t] = @ + 1]
    /\ UNCHANGED <<mu, wpc, wcr, wbuf, wret, inFlight, lockOrder>>
    /\ UNCHANGED <<attempts, connRet>>
    /\ UNCHANGED codecVars
    /\ UNCHANGED ackVars

ConnWriteReturn(t) ==
    /\ wpc[t] = "writing"
    /\ wsent[t] = Len(wbuf[t])
    /\ inFlight' = [inFlight EXCEPT ![wcr[t]] = @ \ {t}]
    /\ connRet' = [connRet EXCEPT ![t] = <<NoErr>>]
    /\ wret' = [wret EXCEPT ![t] = NoErr]
    /\ wpc' = [wpc EXCEPT ![t] = "unlock"]
    /\ UNCHANGED <<mu, wcr, wbuf, wsent, conn, lockOrder>>
    /\ UNCHANGED attempts
    /\ UNCHANGED codecVars
    /\ UNCHANGED ackVars

ConnWriteError(t) ==
    /\ wpc[t] = "writing"
    /\ inFlight' = [inFlight EXCEPT ![wcr[t]] = @ \ {t}]
    /\ \E e \in TransportErrors :
         /\ connRet' = [connRet EXCEPT ![t] = <<e>>]
         /\ wret' = [wret EXCEPT ![t] = e]
    /\ wpc' = [wpc EXCEPT ![t] = "unlock"]
    /\ UNCHANGED <<mu, wcr, wbuf, wsent, conn, lockOrder>>
    /\ UNCHANGED attempts
    /\ UNCHANGED codecVars
    /\ UNCHANGED ackVars

\* An Unlock that is skipped when the transport write failed (an Unlock
\* after the error return in place of the deferred one).
UnlockOnSuccess(t) ==
    /\ wpc[t] = "unlock"
    /\ mu' = [mu EXCEPT ![wcr[t]] = IF wret[t] = NoErr THEN <<>> ELSE @]
    /\ wpc' = [wpc EXCEPT ![t] = "done"]
    /\ UNCHANGED <<wcr, wbuf, wsent, wret, conn, inFlight, lockOrder>>
    /\ UNCHANGED <<attempts, connRet>>
    /\ UNCHANGED codecVars
    /\ UNCHANGED ackVars

Unlock(t) ==
    /\ wpc[t] = "unlock"
    /\ mu' = [mu EXCEPT ![wcr[t]] = <<>>]
    /\ wpc' = [wpc EXCEPT ![t] = "done"]
    /\ UNCHANGED <<wcr, wbuf, wsent, wret, conn, inFlight, lockOrder>>
    /\ UNCHANGED <<attempts, connRet>>
    /\ UNCHANGED codecVars
    /\ UNCHANGED ackVars

WriteInit ==
    /\ obj = StoreObject(MakeObject(ProtocolV1, DefaultHeader, DefaultLens, DefaultPayload))
    /\ CodecIdle
    /\ WriteIdle
    /\ AckIdle

WriteNext ==
    \E t \in Callers :
        \/ WriteCall(t)
        \/ Lock(t)
        \/ ConnWriteStart(t)
        \/ ConnWriteByte(t)
        \/ ConnWriteReturn(t)
        \/ ConnWriteError(t)
        \/ Unlock(t)

WriteSpec == WriteInit /\ [][WriteNext]_vars

\* The scheduling: a goroutine that can take a step takes one, a free mutex
\* is given to a goroutine that waits for it, and a transport write that
\* was started returns.
WriteFair ==
    \A t \in Callers :
        /\ WF_vars(Lock(t))
        /\ WF_vars(ConnWriteStart(t))
        /\ WF_vars(ConnWriteByte(t) \/ ConnWriteReturn(t) \/ ConnWriteError(t))
        /\ WF_vars(Unlock(t))

WriteLiveSpec == WriteInit /\ [][WriteNext]_vars /\ WriteFair

----------------------------------------------------------------------------
(* The write path of one ConnResponder.                                    *)

\* The callers that have called Write on responder r.
CallersOf(r) == { t \in Callers : wpc[t] # "idle" /\ wcr[t] = r }

AllReturnedOk(r) ==
    \A t \in CallersOf(r) : wpc[t] = "done" /\ wret[t] = NoErr

RECURSIVE ConcatChunks(_)
ConcatChunks(order) ==
    IF order = <<>> THEN <<>>
    ELSE wbuf[Head(order)] \o ConcatChunks(Tail(order))

RECURSIVE SumChunkLens(_)
SumChunkLens(S) ==
    IF S = {} THEN 0
    ELSE LET t == CHOOSE x \in S : TRUE
         IN  Len(wbuf[t]) + SumChunkLens(S \ {t})

\* The orders in which the callers in S can come one after the other.
Orders(S) ==
    { o \in [1..Cardinality(S) -> S] : \A i, j \in DOMAIN o : i # j => o[i] # o[j] }

\* C1: on every responder at most one transport write is in flight at any
\* moment, and the caller whose transport write is in flight holds the
\* responder's lock from before that write starts until after it returns.
C1_MutualExclusion ==
    \A r \in Responders :
        /\ Cardinality(inFlight[r]) <= 1
        /\ \A t \in inFlight[r] : mu[r] = <<t>>
        /\ \A t \in Callers :
             (wcr[t] = r /\ wpc[t] \in {"write", "writing", "unlock"}) => mu[r] = <<t>>

\* A transport write is in flight on a responder, part of its bytes taken,
\* while another caller waits for the lock of the same responder.
C1_Witness ==
    \E r \in Responders : \E t, u \in Callers :
        /\ t # u
        /\ t \in inFlight[r]
        /\ wsent[t] > 0
        /\ wpc[u] = "lock" /\ wcr[u] = r

\* C2: once every caller of Write on a responder has returned without an
\* error, the connection has received the callers' chunks one after the
\* other, each contiguous, in the order in which the callers acquired the
\* lock (some permutation of the callers), and as many bytes as the chunks
\* have together.
C2_NoInterleaving ==
    \A r \in Responders :
        AllReturnedOk(r) =>
            /\ \E o \in Orders(CallersOf(r)) : conn[r] = ConcatChunks(o)
            /\ lockOrder[r] \in Orders(CallersOf(r))
            /\ conn[r] = ConcatChunks(lockOrder[r])
            /\ Len(conn[r]) = SumChunkLens(CallersOf(r))

\* Two callers with chunks of one byte and more have both written on one
\* responder and returned, the later caller first.
C2_Witness ==
    \E r \in Responders : \E t, u \in Callers :
        /\ t < u
        /\ {t, u} \subseteq CallersOf(r)
        /\ AllReturnedOk(r)
        /\ Len(wbuf[t]) > 0 /\ Len(wbuf[u]) > 1
        /\ lockOrder[r][1] = u

----------------------------------------------------------------------------
(* The frame codec.                                                        *)

Strings(o) == <<o.UID, o.Arg1, o.Arg2, o.Arg3, o.Arg4>>

\* An object EncodeFrame has to accept.
ValidObject(o) ==
    /\ o.Version = 1
    /\ o.UID # <<>>
    /\ \A i \in 1..5 : Len(Strings(o)[i]) <= 255
    /\ PLen(o.Payload.bytes) <= 65535

\* The fields the wire carries are the same in both (stored) objects.
SameFields(a, b) ==
    /\ a.Version = b.Version
    /\ a.ObjType = b.ObjType
    /\ a.CmdType = b.CmdType
    /\ a.AckPlcy = b.AckPlcy
    /\ Strings(a) = Strings(b)
    /\ a.PayloadEncoding = b.PayloadEncoding
    /\ a.Payload.bytes = b.Payload.bytes

EncodedOk == encRes.called /\ encRes.err = NoErr

\* The frame EncodeFrame returned, in pages.
Frame == encRes.bytes.bytes

\* DecodeFrame was called with a responder attached.
Decoded == decRes.called /\ resp # NilPtr

DecodedOk == decRes.called /\ decRes.err = NoErr /\ ~decRes.panic /\ decRes.obj # NilPtr

\* C3: for every object with version 1, a non-empty uid of at most 255
\* bytes, four arguments of at most 255 bytes each, any payload_encoding and
\* a payload of at most 65535 bytes (absent and empty included), EncodeFrame
\* succeeds, and DecodeFrame of its output, called with a responder,
\* succeeds and returns an object with the same version, obj_type, cmd_type,
\* ack_policy, uid, arguments, payload_encoding and payload contents.
C3_RoundTrip ==
    ValidObject(obj) =>
        /\ encRes.called => (encRes.err = NoErr /\ ~encRes.bytes.isNil)
        /\ (EncodedOk /\ Decoded /\ line = Frame) =>
              (DecodedOk /\ SameFields(Deref(decRes.obj), obj))

\* An object whose five strings and payload are all non-empty was encoded
\* and its frame decoded.
C3_Witness ==
    /\ ValidObject(obj)
    /\ \A i \in 1..5 : Len(Strings(obj)[i]) > 0
    /\ PLen(obj.Payload.bytes) > 0
    /\ EncodedOk /\ Decoded /\ line = Frame
    /\ DecodedOk

\* C4: DecodeFrame of any proper prefix of a frame EncodeFrame produced, the
\* empty one included, called with a responder, returns an error and no
\* object, and does not panic.
C4_TruncationSafety ==
    (EncodedOk /\ Decoded /\ PIsProperPrefix(line, Frame)) =>
        (decRes.err # NoErr /\ decRes.obj = NilPtr /\ ~decRes.panic)

\* A frame with a payload was decoded with its last byte cut off.
C4_Witness ==
    /\ EncodedOk /\ Decoded
    /\ PLen(obj.Payload.bytes) > 0
    /\ PLen(line) = PLen(Frame) - 1
    /\ PIsProperPrefix(line, Frame)

\* C5: DecodeFrame of a frame EncodeFrame produced followed by one byte or
\* more, called with a responder, fails with the trailing-data error and
\* returns no object.
C5_TrailingData ==
    (EncodedOk /\ Decoded /\ PIsProperPrefix(Frame, line)) =>
        /\ decRes.err = Err("unaccounted data in reader", "", "")
        /\ decRes.obj = NilPtr
        /\ ~decRes.panic

\* A frame followed by one more byte was decoded.
C5_Witness ==
    /\ EncodedOk /\ Decoded
    /\ PLen(line) = PLen(Frame) + 1
    /\ PIsProperPrefix(Frame, line)

\* C6: DecodeFrame of a non-empty buffer whose first byte is not 1 fails
\* with the unsupported-version error that carries that byte and returns no
\* object, and the outcome depends on nothing but the first byte: not on
\* the bytes after it, nor on the responder.
C6_UnsupportedVersion ==
    (decRes.called /\ PLen(line) > 0 /\ PAt(line, 1) # 1) =>
        /\ decRes.err = ErrVer("unsupported protocol version", PAt(line, 1))
        /\ decRes.obj = NilPtr
        /\ ~decRes.panic

\* A whole frame with the version byte 2 was decoded.
C6_Witness ==
    /\ decRes.called
    /\ PLen(line) >= 12
    /\ PAt(line, 1) = 2

\* C7: DecodeFrame of a version-1 frame whose uid length prefix is 0, called
\* with a responder, fails with the empty-UID error and returns no object,
\* whatever follows the prefix; and every object DecodeFrame returns has a
\* non-empty uid.
C7_EmptyUID ==
    /\ (Decoded /\ PLen(line) >= 5 /\ PAt(line, 1) = 1 /\ PAt(line, 5) = 0) =>
          /\ decRes.err.kind = "empty UID field"
          /\ decRes.obj = NilPtr
          /\ ~decRes.panic
    /\ (decRes.called /\ decRes.obj # NilPtr) =>
          (decRes.err = NoErr /\ Deref(decRes.obj).UID # <<>>)

\* A complete frame with an empty uid and a non-empty first argument was
\* decoded.
C7_Witness ==
    /\ Decoded
    /\ PLen(line) >= 12
    /\ PAt(line, 1) = 1 /\ PAt(line, 5) = 0 /\ PAt(line, 6) > 0

\* C8: in an object that is valid but for the length of its strings, a uid
\* or argument of exactly 255 bytes is encoded by EncodeFrame and decoded
\* back unchanged; with the uid or an argument of 256 bytes or more
\* EncodeFrame fails with the string-too-long error and returns no bytes,
\* and writeString8 returns an error for a string of more than 255 bytes.
C8_StringBoundary ==
    (obj.Version = 1 /\ obj.UID # <<>> /\ PLen(obj.Payload.bytes) <= 65535) =>
        /\ ((\E i \in 1..5 : Len(Strings(obj)[i]) = 255)
            /\ (\A i \in 1..5 : Len(Strings(obj)[i]) <= 255)) =>
              /\ encRes.called => EncodedOk
              /\ (EncodedOk /\ Decoded /\ line = Frame) =>
                    (DecodedOk /\ Strings(Deref(decRes.obj)) = Strings(obj))
        /\ ((\E i \in 1..5 : Len(Strings(obj)[i]) >= 256) /\ encRes.called) =>
              /\ encRes.err.kind = "string too long for u8 prefix"
              /\ encRes.bytes = NilSlice
        /\ \A i \in 1..5 :
              (encRes.called /\ Len(Strings(obj)[i]) > 255) =>
                  writeString8(<<>>, Strings(obj)[i]).err # NoErr

\* An object with a string of exactly 255 bytes was encoded and its frame
\* decoded.
C8_Witness ==
    /\ ValidObject(obj)
    /\ \E i \in 1..5 : Len(Strings(obj)[i]) = 255
    /\ EncodedOk /\ Decoded /\ line = Frame

\* Where the two bytes of the payload length stand in the frame of o.
PayloadLenOffset(o) ==
    10 + Len(o.UID) + Len(o.Arg1) + Len(o.Arg2) + Len(o.Arg3) + Len(o.Arg4)

\* C9: an object with a payload of exactly 65535 bytes goes through
\* EncodeFrame and DecodeFrame unchanged; with a payload of 65536 bytes or
\* more (in an object valid otherwise) EncodeFrame fails with the
\* payload-too-large error; so the two-byte length in every frame
\* EncodeFrame produces is the length of the payload, never wrapped around.
C9_PayloadBoundary ==
    /\ (ValidObject(obj) /\ PLen(obj.Payload.bytes) = 65535) =>
          /\ encRes.called => EncodedOk
          /\ (EncodedOk /\ Decoded /\ line = Frame) =>
                (DecodedOk /\ SameFields(Deref(decRes.obj), obj))
    /\ (obj.Version = 1 /\ obj.UID # <<>> /\ PLen(obj.Payload.bytes) >= 65536
        /\ encRes.called) =>
          /\ encRes.err.kind = "encodeV1: payload too large"
          /\ encRes.bytes = NilSlice
    /\ EncodedOk =>
          PAt(Frame, PayloadLenOffset(obj) + 1) * 256 + PAt(Frame, PayloadLenOffset(obj) + 2)
              = PLen(obj.Payload.bytes)

\* An object with a payload of exactly 65535 bytes was encoded and its frame
\* decoded.
C9_Witness ==
    /\ PLen(obj.Payload.bytes) = 65535
    /\ EncodedOk /\ Decoded /\ line = Frame
    /\ DecodedOk

\* The version-1 layout of the fields of o, written out byte by byte.
Layout(o) ==
    <<1, o.ObjType, o.CmdType, o.AckPlcy>>
    \o <<Len(o.UID)>> \o o.UID
    \o <<Len(o.Arg1)>> \o o.Arg1
    \o <<Len(o.Arg2)>> \o o.Arg2
    \o <<Len(o.Arg3)>> \o o.Arg3
    \o <<Len(o.Arg4)>> \o o.Arg4
    \o <<o.PayloadEncoding>>
    \o <<Len(o.Payload.bytes) \div 256, Len(o.Payload.bytes) % 256>>
    \o o.Payload.bytes

----------------------------------------------------------------------------
(* one.go: EncodeResponseV1; object.go: the two EncodeResponse, the        *)
(* function and the method of Object.  A result is the returned []byte     *)
(* with the returned error, or a run-time panic (a nil pointer was         *)
(* dereferenced).                                                          *)

AckSent == 1

\* An EncodeResponseV1 whose length prefix counts the prefix itself.
EncodeResponseV1LenCountsPrefix(response) ==
    LET Framed(body) == writeU16(<<>>, uint16(Len(body) + 2)) \o body
        UIDWritten(w) == Framed(writeU8(w.buf, response.Ack))
    IN  UIDWritten(writeString8(<<>>, response.UID))

\* EncodeResponseV1 discards the error of writeString8, which has written
\* nothing when it fails.
EncodeResponseV1(response) ==
    LET Framed(body) == writeU16(<<>>, uint16(Len(body))) \o body
        UIDWritten(w) == Framed(writeU8(w.buf, response.Ack))
    IN  UIDWritten(writeString8(<<>>, response.UID))

EncRespOk(b) == [bytes |-> Slice(b), err |-> NoErr, panic |-> FALSE]
EncRespFail(e) == [bytes |-> NilSlice, err |-> e, panic |-> FALSE]
EncRespPanic == [bytes |-> NilSlice, err |-> NoErr, panic |-> TRUE]

\* An EncodeResponse that encodes the response whatever the version.
EncodeResponseAnyVersion(o) ==
    IF o.Response = NilPtr
    THEN EncRespPanic
    ELSE EncRespOk(EncodeResponseV1(Deref(o.Response)))

\* The function EncodeResponse(obj).
EncodeResponse(o) ==
    IF o.Version = 1
    THEN IF o.Response = NilPtr
         THEN EncRespPanic
         ELSE EncRespOk(EncodeResponseV1(Deref(o.Response)))
    ELSE IF o.Responder = NilPtr
         THEN EncRespPanic
         ELSE EncRespFail(ErrAddr("unable to encode response for", "", "",
                                  RemoteAddr(Deref(o.Responder))))

\* The method obj.EncodeResponse().
ObjectEncodeResponse(o) ==
    IF o.Version = ProtocolV1
    THEN IF o.Response = NilPtr
         THEN EncRespPanic
         ELSE EncRespOk(EncodeResponseV1(Deref(o.Response)))
    ELSE IF o.Responder = NilPtr
         THEN EncRespPanic
         ELSE EncRespFail(ErrAddr("unable to encode response for", "", "",
                                  RemoteAddr(Deref(o.Responder))))

----------------------------------------------------------------------------
(* object.go: RespondWithAck, up to its call of obj.Responder.Write.  The  *)
(* result is the object as the call leaves it and either what the call     *)
(* returns at once or the Write it goes on with.                           *)

SetAck(o, a) == [o EXCEPT !.Response = Ptr([Deref(o.Response) EXCEPT !.Ack = a])]

AckReturns(o, e) == [obj |-> o, err |-> e, panic |-> FALSE, write |-> NilPtr]
AckPanics(o) == [obj |-> o, err |-> NoErr, panic |-> TRUE, write |-> NilPtr]
AckWrites(o, b) ==
    [obj |-> o, err |-> NoErr, panic |-> FALSE,
     write |-> Ptr([cr |-> Deref(o.Responder), b |-> b])]

\* A RespondWithAck that encodes the response before it sets the ack.
RespondWithAckEncodesFirst(o, a) ==
    LET Encoded(o1, msg) ==
            IF msg.panic THEN AckPanics(o1)
            ELSE IF msg.err # NoErr THEN AckReturns(o1, msg.err)
            ELSE AckWrites(o1, msg.bytes.bytes)
    IN  IF o.Responder # NilPtr
        THEN IF o.Response = NilPtr THEN AckPanics(o)
             ELSE Encoded(SetAck(o, a), ObjectEncodeResponse(o))
        ELSE AckReturns(o, Err("responder is nil", "", ""))

\* A RespondWithAck that sets the ack before it looks at the responder.
RespondWithAckSetsAckFirst(o, a) ==
    LET Encoded(o1, msg) ==
            IF msg.panic THEN AckPanics(o1)
            ELSE IF msg.err # NoErr THEN AckReturns(o1, msg.err)
            ELSE AckWrites(o1, msg.bytes.bytes)
        AckSet(o1) ==
            IF o1.Responder # NilPtr
            THEN Encoded(o1, ObjectEncodeResponse(o1))
            ELSE AckReturns(o1, Err("responder is nil", "", ""))
    IN  IF o.Response = NilPtr THEN AckPanics(o) ELSE AckSet(SetAck(o, a))

\* A RespondWithAck that goes on to Write whatever EncodeResponse returned.
RespondWithAckIgnoresEncodeError(o, a) ==
    LET Encoded(o1, msg) ==
            IF msg.panic THEN AckPanics(o1)
            ELSE AckWrites(o1, msg.bytes.bytes)
        AckSet(o1) == Encoded(o1, ObjectEncodeResponse(o1))
    IN  IF o.Responder # NilPtr
        THEN IF o.Response = NilPtr THEN AckPanics(o) ELSE AckSet(SetAck(o, a))
        ELSE AckReturns(o, Err("responder is nil", "", ""))

RespondWithAck(o, a) ==
    LET Encoded(o1, msg) ==
            IF msg.panic THEN AckPanics(o1)
            ELSE IF msg.err # NoErr THEN AckReturns(o1, msg.err)
            ELSE AckWrites(o1, msg.bytes.bytes)
        AckSet(o1) == Encoded(o1, ObjectEncodeResponse(o1))
    IN  IF o.Responder # NilPtr
        THEN IF o.Response = NilPtr THEN AckPanics(o) ELSE AckSet(SetAck(o, a))
        ELSE AckReturns(o, Err("responder is nil", "", ""))

----------------------------------------------------------------------------
(* The responses and objects the response path is applied to, and the      *)
(* response path as a state machine: EncodeResponseV1 on a Response, the   *)
(* two EncodeResponse on an object, and RespondWithAck called by several   *)
(* goroutines, each on an object of its own, where the objects may share   *)
(* a responder.                                                            *)

MaxAckCallers == 2   \* the goroutines that call RespondWithAck concurrently

AckValues == {AckUnknown, AckSent, 255}

\* "abc" with ack 1, and uids of 0..MaxStrLen bytes, of 255 and of 256.
ResponseInputs ==
    { Response(<<97, 98, 99>>, AckSent) }
    \cup { Response(Str("uid", n), a) :
             n \in (0..MaxStrLen) \cup {u8Limit, u8Limit + 1}, a \in AckValues }

\* An object as NewObject builds it (a Response, no responder), as
\* DecodeFrame returns it (a Response and a responder), and as a literal
\* gives it (any version, with or without Response and responder).
EncRespObjects ==
    { [MakeObject(v, DefaultHeader, <<n, 1, 1, 1, 1>>, DefaultPayload)
         EXCEPT !.Responder = cr, !.Response = IF rsp THEN @ ELSE NilPtr] :
        v \in Versions, n \in 1..MaxStrLen,
        cr \in {NilPtr} \cup { Ptr(r) : r \in Responders }, rsp \in BOOLEAN }

AckObjects == { o \in EncRespObjects : o.Version \in {ProtocolV1, 2} /\ Len(o.UID) = 1 }

AckInputs == {255}

AckCallers == 1..MaxAckCallers

PureCallsIdle == ~respRes.called /\ ~encRespRes.called

EncodeResponseV1Call ==
    /\ PureCallsIdle
    /\ \A t \in Callers : ackPc[t] = "idle"
    /\ \E r \in ResponseInputs :
         respRes' = [called |-> TRUE, response |-> r, bytes |-> EncodeResponseV1(r)]
    /\ UNCHANGED <<encRespRes, ackIn, ackObj, ackPc, ackRet>>
    /\ UNCHANGED codecVars
    /\ UNCHANGED writeVars

EncodeResponseCall ==
    /\ PureCallsIdle
    /\ \A t \in Callers : ackPc[t] = "idle"
    /\ \E o \in EncRespObjects :
         encRespRes' = [called |-> TRUE, obj |-> Ptr(o),
                        fn |-> EncodeResponse(o), method |-> ObjectEncodeResponse(o)]
    /\ UNCHANGED <<respRes, ackIn, ackObj, ackPc, ackRet>>
    /\ UNCHANGED codecVars
    /\ UNCHANGED writeVars

\* RespondWithAck from its call to its return or to its call of Write.
RespondWithAckCall(t) ==
    /\ PureCallsIdle
    /\ ackPc[t] = "idle"
    /\ wpc[t] = "idle"
    /\ \E o \in AckObjects, a \in AckInputs :
         LET res == RespondWithAck(o, a)
         IN  /\ ackIn' = [ackIn EXCEPT ![t] = <<[obj |-> o, ack |-> a]>>]
             /\ ackObj' = [ackObj EXCEPT ![t] = Ptr(res.obj)]
             /\ IF res.write = NilPtr
                THEN /\ ackPc' = [ackPc EXCEPT ![t] = "done"]
                     /\ ackRet' = [ackRet EXCEPT ![t] = <<[err |-> res.err, panic |-> res.panic]>>]
                     /\ UNCHANGED <<wpc, wcr, wbuf>>
                ELSE /\ ackPc' = [ackPc EXCEPT ![t] = "write"]
                     /\ wcr' = [wcr EXCEPT ![t] = Deref(res.write).cr]
                     /\ wbuf' = [wbuf EXCEPT ![t] = Deref(res.write).b]
                     /\ wpc' = [wpc EXCEPT ![t] = "lock"]
                     /\ UNCHANGED ackRet
    /\ UNCHANGED <<respRes, encRespRes>>
    /\ UNCHANGED <<mu, wsent, wret, conn, inFlight, lockOrder, attempts, connRet>>
    /\ UNCHANGED codecVars

\* A RespondWithAck that returns nil whatever Write returned.
RespondWithAckReturnIgnoresWrite(t) ==
    /\ ackPc[t] = "write"
    /\ wpc[t] = "done"
    /\ ackPc' = [ackPc EXCEPT ![t] = "done"]
    /\ ackRet' = [ackRet EXCEPT ![t] = <<[err |-> NoErr, panic |-> FALSE]>>]
    /\ UNCHANGED <<respRes, encRespRes, ackIn, ackObj>>
    /\ UNCHANGED codecVars
    /\ UNCHANGED writeVars

\* return obj.Responder.Write(msg)
RespondWithAckReturn(t) ==
    /\ ackPc[t] = "write"
    /\ wpc[t] = "done"
    /\ ackPc' = [ackPc EXCEPT ![t] = "done"]
    /\ ackRet' = [ackRet EXCEPT ![t] = <<[err |-> wret[t], panic |-> FALSE]>>]
    /\ UNCHANGED <<respRes, encRespRes, ackIn, ackObj>>
    /\ UNCHANGED codecVars
    /\ UNCHANGED writeVars

AckInit == WriteInit

AckNext ==
    \/ EncodeResponseV1Call
    \/ EncodeResponseCall
    \/ \E t \in AckCallers :
        \/ RespondWithAckCall(t)
        \/ Lock(t)
        \/ ConnWriteStart(t)
        \/ ConnWriteByte(t)
        \/ ConnWriteReturn(t)
        \/ ConnWriteError(t)
        \/ Unlock(t)
        \/ RespondWithAckReturn(t)

AckSpec == AckInit /\ [][AckNext]_vars

----------------------------------------------------------------------------
(* The response path.                                                      *)

\* The response frame written out byte by byte: the two bytes of
\* |uid| + 2, high byte first, the byte |uid|, the uid, the ack.
ResponseLayout(uid, ack) ==
    <<(Len(uid) + 2) \div 256, (Len(uid) + 2) % 256, Len(uid)>> \o uid \o <<ack>>

\* C11: for a Response whose uid has at most 255 bytes EncodeResponseV1
\* returns exactly the two-byte big-endian |uid| + 2, the byte |uid|, the
\* uid and the ack, |uid| + 4 bytes in all; for uid "abc" and ack 1 these
\* are 00 05 03 61 62 63 01.
C11_ResponseLayout ==
    (respRes.called /\ Len(respRes.response.UID) <= 255) =>
        /\ respRes.bytes = ResponseLayout(respRes.response.UID, respRes.response.Ack)
        /\ Len(respRes.bytes) = Len(respRes.response.UID) + 4
        /\ respRes.response = [UID |-> <<97, 98, 99>>, Ack |-> 1] =>
             respRes.bytes = <<0, 5, 3, 97, 98, 99, 1>>

\* EncodeResponseV1 has encoded a Response with a uid of 255 bytes and a
\* non-zero ack.
C11_Witness ==
    /\ respRes.called
    /\ Len(respRes.response.UID) = 255
    /\ respRes.response.Ack # 0
    /\ Len(respRes.bytes) = 259

\* C12: an object DecodeFrame returns has one Response attached, whose uid
\* is the uid decoded from the line and whose ack is AckUnknown, and its
\* responder is the one handed to DecodeFrame; an object NewObject built
\* has a Response with the uid given and ack AckUnknown, and no responder.
C12_AttachedResponse ==
    /\ (decRes.called /\ decRes.obj # NilPtr) =>
         LET o == Deref(decRes.obj)
         IN  /\ Len(o.Response) = 1
             /\ Deref(o.Response) = [UID |-> o.UID, Ack |-> AckUnknown]
             /\ PAt(line, 5) = Len(o.UID)
             /\ \A i \in 1..Len(o.UID) : PAt(line, 5 + i) = o.UID[i]
             /\ o.Responder = resp
    /\ Len(obj.Response) = 1
    /\ Deref(obj.Response) = [UID |-> obj.UID, Ack |-> AckUnknown]
    /\ obj.Responder = NilPtr

\* DecodeFrame, handed a responder, has returned an object whose uid has
\* 255 bytes.
C12_Witness ==
    /\ decRes.called
    /\ decRes.obj # NilPtr
    /\ resp = Ptr("r1")
    /\ Len(Deref(decRes.obj).UID) = 255
    /\ Deref(decRes.obj).Responder = Ptr("r1")

\* The object and the ack of caller t's RespondWithAck call.
AckCalled(t) == ackPc[t] # "idle"
AckObjIn(t) == Deref(ackIn[t]).obj
AckArg(t) == Deref(ackIn[t]).ack

\* How many times caller t acquired the lock of responder r.
LocksTaken(t, r) ==
    Cardinality({ i \in DOMAIN lockOrder[r] : lockOrder[r][i] = t })

\* The callers that called RespondWithAck on a version-1 object with a
\* responder and a Response.
Acknowledging(t) ==
    /\ AckCalled(t)
    /\ AckObjIn(t).Version = ProtocolV1
    /\ AckObjIn(t).Responder # NilPtr
    /\ AckObjIn(t).Response # NilPtr

\* C13: RespondWithAck(a) on a version-1 object with a responder sets
\* response.ack to a and then calls Write once, on the object's responder,
\* with exactly the response frame of response.uid and a; the transport
\* sees one write of it, whole when the call returns nil.
C13_AckOperation ==
    \A t \in AckCallers :
        Acknowledging(t) =>
            /\ Deref(Deref(ackObj[t]).Response) =
                 [UID |-> Deref(AckObjIn(t).Response).UID, Ack |-> AckArg(t)]
            /\ wpc[t] # "idle"
            /\ wcr[t] = Deref(AckObjIn(t).Responder)
            /\ wbuf[t] = ResponseLayout(Deref(AckObjIn(t).Response).UID, AckArg(t))
            /\ attempts[t] <= 1
            /\ \A r \in Responders : LocksTaken(t, r) <= (IF r = wcr[t] THEN 1 ELSE 0)
            /\ ackPc[t] = "done" =>
                 /\ attempts[t] = 1
                 /\ LocksTaken(t, wcr[t]) = 1
                 /\ Deref(ackRet[t]).err = NoErr => wsent[t] = Len(wbuf[t])

\* Two callers have acknowledged on the same responder and returned nil.
C13_Witness ==
    \E t, u \in AckCallers :
        /\ t # u
        /\ Acknowledging(t) /\ Acknowledging(u)
        /\ ackPc[t] = "done" /\ ackPc[u] = "done"
        /\ Deref(ackRet[t]).err = NoErr /\ Deref(ackRet[u]).err = NoErr
        /\ wcr[t] = wcr[u]
        /\ Deref(Deref(ackObj[t]).Response).Ack = 255
        /\ Len(conn[wcr[t]]) = Len(wbuf[t]) + Len(wbuf[u])

\* The bytes the transport of responder r has taken from the callers.
RECURSIVE SumSent(_, _)
SumSent(S, r) ==
    IF S = {} THEN 0
    ELSE LET t == CHOOSE x \in S : TRUE
         IN  (IF wcr[t] = r THEN wsent[t] ELSE 0) + SumSent(S \ {t}, r)

\* C14: RespondWithAck on an object without a responder returns the error
\* "responder is nil", writes nothing to any transport (no Write call, no
\* transport write, and every byte a connection received was sent by
\* another caller), and leaves the object, response.ack included, as it was.
C14_NoResponder ==
    /\ \A t \in AckCallers :
         (AckCalled(t) /\ AckObjIn(t).Responder = NilPtr) =>
            /\ ackPc[t] = "done"
            /\ ackRet[t] = <<[err |-> Err("responder is nil", "", ""), panic |-> FALSE]>>
            /\ wpc[t] = "idle"
            /\ attempts[t] = 0
            /\ wsent[t] = 0
            /\ \A r \in Responders : LocksTaken(t, r) = 0
            /\ ackObj[t] = Ptr(AckObjIn(t))
    /\ \A r \in Responders :
         Len(conn[r]) = SumSent({ t \in AckCallers : wpc[t] # "idle" }, r)

\* A caller was refused for an object NewObject built (version 1, a
\* Response, no responder) while another caller's acknowledgment has
\* reached a connection.
C14_Witness ==
    \E t, u \in AckCallers :
        /\ AckCalled(t)
        /\ AckObjIn(t).Responder = NilPtr
        /\ AckObjIn(t).Response # NilPtr
        /\ AckObjIn(t).Version = ProtocolV1
        /\ Deref(AckObjIn(t).Response).Ack # AckArg(t)
        /\ ackPc[u] = "done" /\ Acknowledging(u)
        /\ conn[wcr[u]] # <<>>

\* C15: when the transport write fails, Write returns the transport's
\* error after that one attempt, and RespondWithAck returns the same
\* error; a transport write that succeeds gives nil in both.
C15_ErrorPropagation ==
    \A t \in AckCallers :
        /\ wpc[t] \in {"unlock", "done"} =>
             /\ connRet[t] # <<>>
             /\ wret[t] = connRet[t][1]
             /\ attempts[t] = 1
        /\ (ackPc[t] = "done" /\ wpc[t] # "idle") =>
             /\ wpc[t] = "done"
             /\ ackRet[t] = <<[err |-> connRet[t][1], panic |-> FALSE]>>
             /\ attempts[t] = 1
             /\ LocksTaken(t, wcr[t]) = 1

\* RespondWithAck has returned the error of a transport write that failed
\* after part of the frame was taken.
C15_Witness ==
    \E t \in AckCallers :
        /\ ackPc[t] = "done"
        /\ wpc[t] = "done"
        /\ connRet[t] = <<Err("boom", "", "")>>
        /\ Deref(ackRet[t]).err = Err("boom", "", "")
        /\ wsent[t] > 0
        /\ wsent[t] < Len(wbuf[t])

----------------------------------------------------------------------------
(* The lock of a ConnResponder.                                            *)

\* C16: a Write call that returns, with nil or with the transport's error,
\* leaves the responder's lock free of it, and its return is the step that
\* frees the lock; so, every transport write returning, every caller that
\* waits for the lock of a responder gets it and returns.
C16_LockRelease ==
    /\ [](\A t \in Callers : wpc[t] = "done" => mu[wcr[t]] # <<t>>)
    /\ [][\A t \in Callers :
            (wpc[t] = "unlock" /\ wpc'[t] = "done") => mu'[wcr[t]] = <<>>]_vars
    /\ \A t \in Callers : (wpc[t] = "lock") ~> (wpc[t] = "done")

\* A Write call failed, and a caller that took the lock of the same
\* responder after it has returned too.
C16_Witness ==
    \E r \in Responders : \E t, u \in Callers :
        /\ t # u
        /\ Len(lockOrder[r]) >= 2
        /\ lockOrder[r][1] = t /\ lockOrder[r][2] = u
        /\ wpc[t] = "done" /\ wret[t] # NoErr
        /\ wpc[u] = "done"
        /\ mu[r] = <<>>

----------------------------------------------------------------------------
(* What a failed DecodeFrame and a failed EncodeFrame return.              *)

\* C17: a DecodeFrame call that returns gives an object or an error and
\* never both or neither, and with a responder it always returns: whenever
\* it reports an error (a field that could not be read, an unknown
\* version, an empty uid, data left over) the object is absent, whatever
\* was parsed before.
C17_NoPartialObject ==
    decRes.called =>
        /\ resp # NilPtr => ~decRes.panic
        /\ ~decRes.panic => ((decRes.obj = NilPtr) # (decRes.err = NoErr))
        /\ decRes.err # NoErr => decRes.obj = NilPtr
        /\ decRes.obj # NilPtr => PLen(line) >= 12

\* DecodeFrame failed at the payload, after the header, the uid and the
\* four arguments of the line were parsed, and returned no object.
C17_Witness ==
    /\ decRes.called
    /\ decRes.err.kind = "Unable to parse payload"
    /\ decRes.obj = NilPtr
    /\ PLen(line) > 12
    /\ PAt(line, 5) > 0

\* C18: a failed EncodeFrame (a version other than 1, an empty uid, a
\* payload of more than 65535 bytes, a uid or argument of more than 255
\* bytes) returns an error and a nil slice; the empty uid and the payload
\* size are reported whatever else is wrong with the object; a successful
\* one returns bytes; and no connection receives anything.
C18_NoPartialFrame ==
    /\ encRes.called =>
         LET o == obj
         IN  /\ encRes.err # NoErr => encRes.bytes = [isNil |-> TRUE, bytes |-> <<>>]
             /\ encRes.err = NoErr => (~encRes.bytes.isNil /\ PLen(encRes.bytes.bytes) >= 12)
             /\ o.Version # 1 => encRes.err.kind = "unsupported protocol version"
             /\ (o.Version = 1 /\ o.UID = <<>>) =>
                  encRes.err.kind = "encodeV1: UID must not be empty"
             /\ (o.Version = 1 /\ o.UID # <<>> /\ PLen(o.Payload.bytes) > 65535) =>
                  encRes.err.kind = "encodeV1: payload too large"
             /\ (o.Version = 1 /\ o.UID # <<>> /\ PLen(o.Payload.bytes) <= 65535
                   /\ \E f \in {o.UID, o.Arg1, o.Arg2, o.Arg3, o.Arg4} : Len(f) > 255) =>
                  encRes.err.kind = "string too long for u8 prefix"
    /\ \A r \in Responders : conn[r] = <<>>
    /\ \A t \in Callers : attempts[t] = 0

\* EncodeFrame failed at the last argument, after the header, the uid and
\* three arguments were written to its buffer, and returned a nil slice.
C18_Witness ==
    /\ encRes.called
    /\ encRes.err.kind = "string too long for u8 prefix"
    /\ encRes.err.field = "arg4"
    /\ encRes.bytes.isNil
    /\ Len(obj.Arg3) > 0

----------------------------------------------------------------------------
(* The dispatch of EncodeResponse.                                         *)

EncRespObj == Deref(encRespRes.obj)

\* C19: for an object of version 1 EncodeResponse returns, with a nil
\* error, exactly the bytes EncodeResponseV1 gives for the object's
\* Response (the response frame of its uid and ack); for an object of
\* another version that has a responder it returns a nil slice and an
\* error that carries the responder's remote address.
C19_ResponseDispatch ==
    encRespRes.called =>
        /\ (EncRespObj.Version = 1 /\ EncRespObj.Response # NilPtr) =>
             /\ encRespRes.fn =
                  [bytes |-> Slice(EncodeResponseV1(Deref(EncRespObj.Response))),
                   err |-> NoErr, panic |-> FALSE]
             /\ encRespRes.fn.bytes.bytes =
                  ResponseLayout(Deref(EncRespObj.Response).UID,
                                 Deref(EncRespObj.Response).Ack)
        /\ (EncRespObj.Version # 1 /\ EncRespObj.Responder # NilPtr) =>
             /\ ~encRespRes.fn.panic
             /\ encRespRes.fn.err.kind = "unable to encode response for"
             /\ encRespRes.fn.err.addr = ConnRemoteAddr(Deref(EncRespObj.Responder))
             /\ encRespRes.fn.bytes = NilSlice

\* EncodeResponse has refused an object of version 2 whose responder is
\* the second connection's, naming that connection's remote address.
C19_Witness ==
    /\ encRespRes.called
    /\ EncRespObj.Version = 2
    /\ EncRespObj.Responder = Ptr("r2")
    /\ EncRespObj.Response # NilPtr
    /\ encRespRes.fn.err.addr = "remote:2"

\* C20: for an object of a version other than 1 that has no responder,
\* EncodeResponse, function and method, returns an error and a nil slice,
\* and does not panic.
C20_NoResponderNoCrash ==
    (encRespRes.called /\ EncRespObj.Version # 1 /\ EncRespObj.Responder = NilPtr) =>
        /\ ~encRespRes.fn.panic
        /\ encRespRes.fn.err # NoErr
        /\ encRespRes.fn.bytes = NilSlice
        /\ ~encRespRes.method.panic
        /\ encRespRes.method.err # NoErr
        /\ encRespRes.method.bytes = NilSlice

----------------------------------------------------------------------------
(* Decoding without a responder.                                           *)

\* C21: DecodeFrame never terminates the process: for every line and every
\* responder argument, the absent one included, the call ends by returning
\* an object or an error; it does not panic.
C21_DecodeNeverPanics ==
    decRes.called =>
        /\ ~decRes.panic
        /\ (decRes.obj # NilPtr) # (decRes.err # NoErr)

----------------------------------------------------------------------------
(* Values of length zero.                                                  *)

\* Where the length byte of the i-th string (1 the uid, 2..5 arg1..arg4)
\* stands in the frame of o; 6 gives the place of payload_encoding.
RECURSIVE StrPos(_, _)
StrPos(o, i) == IF i = 1 THEN 5 ELSE StrPos(o, i - 1) + 1 + Len(Strings(o)[i - 1])

FieldNames == <<"UID", "arg1", "arg2", "arg3", "arg4", "PayloadEncoding">>

\* C24: a length byte of 0 for any of arg1..arg4 decodes to the empty
\* string and a payload length of 0 to an empty payload, without error; the
\* reader takes no byte beyond the prefix (a line that ends right after the
\* zero prefix fails at the field that follows, and bytes after a payload
\* of length 0 are reported as unaccounted data); only the uid is rejected
\* when its length is 0.
C24_ZeroLengthValues ==
    /\ (EncodedOk /\ Decoded /\ line = Frame) =>
          /\ DecodedOk
          /\ \A i \in 2..5 :
                Len(Strings(obj)[i]) = 0 => Strings(Deref(decRes.obj))[i] = <<>>
          /\ PLen(obj.Payload.bytes) = 0 => PLen(Deref(decRes.obj).Payload.bytes) = 0
    /\ \A i \in 2..5 :
          (EncodedOk /\ Decoded /\ Len(Strings(obj)[i]) = 0
             /\ PIsProperPrefix(line, Frame) /\ PLen(line) = StrPos(obj, i)) =>
                /\ decRes.err.field = FieldNames[i + 1]
                /\ i < 5 => decRes.err.cause = "EOF"
    /\ (EncodedOk /\ Decoded /\ PLen(obj.Payload.bytes) = 0 /\ PIsProperPrefix(Frame, line)) =>
          decRes.err.kind = "unaccounted data in reader"
    /\ (Decoded /\ PLen(line) >= 5 /\ PAt(line, 1) = 1 /\ PAt(line, 5) = 0) =>
          decRes.err.kind = "empty UID field"

\* The frame of an object with an empty arg2 and an empty payload was
\* decoded into an object with an empty arg2 and no payload.
C24_Witness ==
    /\ EncodedOk /\ Decoded /\ line = Frame /\ DecodedOk
    /\ obj.Arg2 = <<>> /\ obj.Arg1 # <<>>
    /\ ~obj.Payload.isNil /\ PLen(obj.Payload.bytes) = 0
    /\ Deref(decRes.obj).Arg2 = <<>>
    /\ Deref(decRes.obj).Payload.isNil

----------------------------------------------------------------------------
(* The order of the checks.                                                *)

\* The first field of the paged line l, in layout order, that is missing,
\* cut short or empty where it may not be: read off the positions of the
\* bytes.  TailDefect starts at payload_encoding, StrDefect at the length
\* byte (at position p) of the i-th string.
TailDefect(l, q) ==
    IF PLen(l) < q THEN "PayloadEncoding"
    ELSE IF PLen(l) < q + 2 THEN "Payload"
    ELSE IF PLen(l) < q + 2 + PAt(l, q + 1) * 256 + PAt(l, q + 2) THEN "Payload"
    ELSE IF PLen(l) > q + 2 + PAt(l, q + 1) * 256 + PAt(l, q + 2) THEN "trailing"
    ELSE "none"

RECURSIVE StrDefect(_, _, _)
StrDefect(l, i, p) ==
    IF PLen(l) < p THEN FieldNames[i]
    ELSE IF PLen(l) < p + PAt(l, p) THEN FieldNames[i]
    ELSE IF i = 1 /\ PAt(l, p) = 0 THEN "UID"
    ELSE IF i < 5 THEN StrDefect(l, i + 1, p + 1 + PAt(l, p))
    ELSE TailDefect(l, p + 1 + PAt(l, p))

FirstDefect(l) ==
    IF PLen(l) = 0 THEN "version"
    ELSE IF PAt(l, 1) # 1 THEN "version"
    ELSE IF PLen(l) < 4 THEN <<"ObjType", "CmdType", "AckPolicy">>[PLen(l)]
    ELSE StrDefect(l, 1, 5)

\* What a result of DecodeFrame reports.
Reported(d) ==
    IF d.err = NoErr THEN "none"
    ELSE IF d.err.kind = "unaccounted data in reader" THEN "trailing"
    ELSE d.err.field

\* C26: DecodeFrame checks the fields in layout order (version, obj_type,
\* cmd_type, ack_policy, uid, arg1..arg4, payload_encoding, payload, then
\* leftover bytes): the error it returns is that of the earliest defective
\* field of the line, and the trailing-data error is returned only when
\* every field was read.
C26_FirstFailingField ==
    Decoded =>
        /\ ~decRes.panic
        /\ Reported(decRes) = FirstDefect(line)
        /\ decRes.err.kind = "unaccounted data in reader" =>
              (PLen(line) > 12 /\ PAt(line, 1) = 1 /\ PAt(line, 5) > 0)

\* A line with an empty uid whose arg1 is cut short was decoded, and the
\* empty uid was reported.
C26_Witness ==
    /\ Decoded
    /\ PLen(line) = 6 /\ PAt(line, 1) = 1 /\ PAt(line, 5) = 0 /\ PAt(line, 6) = 1
    /\ decRes.err.kind = "empty UID field"

----------------------------------------------------------------------------
(* Decoding followed by encoding.                                          *)

\* C28: for every line DecodeFrame accepts, EncodeFrame of the decoded
\* object succeeds and returns exactly that line.
C28_CanonicalEncoding ==
    reEnc.called =>
        /\ DecodedOk
        /\ reEnc.err = NoErr
        /\ ~reEnc.bytes.isNil
        /\ reEnc.bytes.bytes = line

\* A line that EncodeFrame did not produce (the frame of an object of
\* another version with its version byte set to 1) was decoded, and the
\* decoded object was encoded again.
C28_Witness ==
    /\ reEnc.called
    /\ DecodedOk
    /\ ~EncodedOk
    /\ obj.Version = 2
    /\ PLen(line) > 12

----------------------------------------------------------------------------
(* Two responders.                                                         *)

\* The callers that are between Lock and Unlock on responder r.
HoldersOf(r) == { u \in Callers : wcr[u] = r /\ wpc[u] \in {"write", "writing", "unlock"} }

\* C25: the write lock belongs to one ConnResponder: a caller that waits
\* for the lock of its responder can take it as soon as no caller of the
\* same responder holds it, whatever is going on at the other responder,
\* and a caller that holds it can always go on with its transport write and
\* its unlock; no caller of another responder is among those in flight on
\* a connection.
C25_IndependentResponders ==
    /\ \A t \in Callers :
          /\ (wpc[t] = "lock" /\ HoldersOf(wcr[t]) = {}) => ENABLED Lock(t)
          /\ wpc[t] = "write" => ENABLED ConnWriteStart(t)
          /\ wpc[t] = "writing" => ENABLED (ConnWriteByte(t) \/ ConnWriteReturn(t))
          /\ wpc[t] = "unlock" => ENABLED Unlock(t)
    /\ \A r \in Responders : \A t \in inFlight[r] : wcr[t] = r

\* Transport writes are in flight on both responders at the same time,
\* both have passed all their bytes, and either can return first.
C25_Witness ==
    \E t, u \in Callers :
        /\ wcr[t] = "r1" /\ wcr[u] = "r2"
        /\ inFlight["r1"] = {t} /\ inFlight["r2"] = {u}
        /\ wbuf[t] # <<>> /\ wbuf[u] # <<>>
        /\ ENABLED ConnWriteReturn(t)
        /\ ENABLED ConnWriteReturn(u)

----------------------------------------------------------------------------
(* Reading a response frame back.                                          *)

\* one_test.go: decodeV1ResponseFrame, the mirror of EncodeResponseV1.  It
\* fails the test (fatal) on a frame that does not have the layout.
decodeV1ResponseFrame(frame) ==
    LET Fatal == [uid |-> <<>>, ack |-> 0, fatal |-> TRUE]
        Split(body, strLen) ==
            IF Len(body) - 1 < strLen + 1 THEN Fatal
            ELSE IF Len(body) - 1 # strLen + 1 THEN Fatal
            ELSE [uid |-> SubSeq(body, 2, strLen + 1), ack |-> body[strLen + 2],
                  fatal |-> FALSE]
        Body(n, body) ==
            IF n # Len(body) THEN Fatal
            ELSE IF Len(body) < 1 THEN Fatal
            ELSE Split(body, body[1])
    IN  IF Len(frame) < 2 THEN Fatal
        ELSE Body(frame[1] * 256 + frame[2], SubSeq(frame, 3, Len(frame)))

\* C29: for every Response, one with a uid of more than 255 bytes
\* included, the frame EncodeResponseV1 returns carries the uid in full:
\* read back with the mirrored layout it gives the same uid and the same
\* ack.
C29_ResponseUIDLimit ==
    respRes.called =>
        /\ ~decodeV1ResponseFrame(respRes.bytes).fatal
        /\ decodeV1ResponseFrame(respRes.bytes).uid = respRes.response.UID
        /\ decodeV1ResponseFrame(respRes.bytes).ack = respRes.response.Ack

----------------------------------------------------------------------------
(* A response that cannot be encoded.                                      *)

\* C30: RespondWithAck on an object that has a responder and a version
\* other than 1 returns the error of EncodeResponse, which names the
\* remote address of the responder, and calls no Write: no lock is taken
\* and no transport write is started; a caller that got as far as Write
\* has a version-1 object and passes the response frame of its uid and of
\* the ack it was called with; and every byte a connection received was
\* sent by such a caller.
C30_NoWriteOnEncodeFailure ==
    /\ \A t \in AckCallers :
         (AckCalled(t) /\ AckObjIn(t).Responder # NilPtr /\ AckObjIn(t).Response # NilPtr
            /\ AckObjIn(t).Version # 1) =>
               /\ ackPc[t] = "done"
               /\ ackRet[t] =
                    <<[err |-> ErrAddr("unable to encode response for", "", "",
                                       ConnRemoteAddr(Deref(AckObjIn(t).Responder))),
                       panic |-> FALSE]>>
               /\ wpc[t] = "idle"
               /\ wbuf[t] = <<>>
               /\ attempts[t] = 0
               /\ \A r \in Responders : LocksTaken(t, r) = 0
    /\ \A t \in AckCallers :
         wpc[t] # "idle" =>
            /\ Acknowledging(t)
            /\ wbuf[t] = ResponseLayout(AckObjIn(t).UID, AckArg(t))
    /\ \A r \in Responders :
         Len(conn[r]) = SumSent({ t \in AckCallers : Acknowledging(t) }, r)

\* A caller was refused for an object of version 2 that has a responder,
\* while the acknowledgment of another caller went out on that responder.
C30_Witness ==
    \E t, u \in AckCallers :
        /\ AckCalled(t)
        /\ AckObjIn(t).Version = 2
        /\ AckObjIn(t).Responder = Ptr("r1")
        /\ AckObjIn(t).Response # NilPtr
        /\ ackRet[t] # <<>>
        /\ Acknowledging(u)
        /\ AckObjIn(u).Responder = Ptr("r1")
        /\ ackRet[u] = <<[err |-> NoErr, panic |-> FALSE]>>
        /\ conn["r1"] = wbuf[u]

----------------------------------------------------------------------------
(* Objects and their Responses as one goroutine allocates and uses them:   *)
(* NewObject and DecodeFrame allocate an Object with a Response of its     *)
(* own (&Response{...}), RespondWithAck assigns through the pointer        *)
(* obj.Response and goes on to ConnResponder.Write.  The goroutine makes   *)
(* up to MaxSessionOps calls, any of them on any object it has.            *)

MaxSessionOps == 3   \* the calls of the goroutine

SessionCaller == 1

\* &Response{...}: a new cell, and the same with a cell shared by the
\* Responses of equal content.
AllocResponseShared(h, rec) ==
    IF \E a \in DOMAIN h : h[a] = rec
    THEN [heap |-> h, addr |-> CHOOSE a \in DOMAIN h : h[a] = rec]
    ELSE [heap |-> Append(h, rec), addr |-> Len(h) + 1]

AllocResponse(h, rec) == [heap |-> Append(h, rec), addr |-> Len(h) + 1]

\* The object a call returned, allocated: its Response in a cell of the
\* heap, the object holding the address.
AllocObject(h, os, o) ==
    LET Placed(a) == [heap |-> a.heap, objs |-> Append(os, [o EXCEPT !.Response = Ptr(a.addr)])]
    IN  Placed(AllocResponse(h, Deref(o.Response)))

\* The i-th object with its Response as the heap has it now.
ObjectAt(i) == [objs[i] EXCEPT !.Response = Ptr(heap[Deref(objs[i].Response)])]

SessionObject == MakeObject(ProtocolV1, DefaultHeader, DefaultLens, DefaultPayload)

SessionFrame == EncodeFrame(SessionObject).bytes.bytes

\* The frame of SessionObject as it is, without its last byte, with one
\* byte more, and with another version.
SessionLines ==
    { SessionFrame,
      Prefix(SessionFrame, Len(SessionFrame) - 1),
      SessionFrame \o <<0>>,
      WithVersion(SessionFrame, 2) }

SessionAcks == {AckSent, 255}

Entry(op, l, r, i, a, e, w) ==
    [op |-> op, line |-> l, resp |-> r, obj |-> i, ack |-> a, err |-> e, write |-> w]

SessionFree ==
    /\ Len(sess) < MaxSessionOps
    /\ ackPc[SessionCaller] \in {"idle", "done"}
    /\ wpc[SessionCaller] \in {"idle", "done"}

SessionNewObject ==
    /\ SessionFree
    /\ LET Placed(a) ==
               /\ heap' = a.heap
               /\ objs' = a.objs
               /\ sess' = Append(sess, Entry("new", <<>>, NilPtr, Len(a.objs), 0, NoErr, FALSE))
       IN  Placed(AllocObject(heap, objs, SessionObject))
    /\ UNCHANGED frameVars
    /\ UNCHANGED writeVars
    /\ UNCHANGED ackVars

SessionDecodeFrame ==
    /\ SessionFree
    /\ \E l \in SessionLines, r \in Responders :
         LET Placed(a) ==
                 /\ heap' = a.heap
                 /\ objs' = a.objs
                 /\ sess' = Append(sess, Entry("decode", l, Ptr(r), Len(a.objs), 0, NoErr, FALSE))
             Returned(d) ==
                 IF d.obj # NilPtr
                 THEN Placed(AllocObject(heap, objs, Deref(d.obj)))
                 ELSE /\ sess' = Append(sess, Entry("decode", l, Ptr(r), 0, 0, d.err, FALSE))
                      /\ UNCHANGED <<heap, objs>>
         IN  Returned(DecodeFrame(l, Ptr(r)))
    /\ UNCHANGED frameVars
    /\ UNCHANGED writeVars
    /\ UNCHANGED ackVars

\* RespondWithAck on the i-th object, from its call to its return or to
\* its call of Write.
SessionRespondWithAck ==
    /\ SessionFree
    /\ \E i \in DOMAIN objs, a \in SessionAcks :
         LET t == SessionCaller
             Called(o, res) ==
                 /\ heap' = [heap EXCEPT ![Deref(objs[i].Response)] = Deref(res.obj.Response)]
                 /\ sess' = Append(sess, Entry("ack", <<>>, o.Responder, i, a, res.err,
                                               res.write # NilPtr))
                 /\ ackIn' = [ackIn EXCEPT ![t] = <<[obj |-> o, ack |-> a]>>]
                 /\ ackObj' = [ackObj EXCEPT ![t] = Ptr(res.obj)]
                 /\ IF res.write = NilPtr
                    THEN /\ ackPc' = [ackPc EXCEPT ![t] = "done"]
                         /\ ackRet' = [ackRet EXCEPT ![t] =
                                         <<[err |-> res.err, panic |-> res.panic]>>]
                         /\ UNCHANGED <<wpc, wcr, wbuf, wsent, wret, connRet>>
                    ELSE /\ ackPc' = [ackPc EXCEPT ![t] = "write"]
                         /\ ackRet' = [ackRet EXCEPT ![t] = <<>>]
                         /\ wcr' = [wcr EXCEPT ![t] = Deref(res.write).cr]
                         /\ wbuf' = [wbuf EXCEPT ![t] = Deref(res.write).b]
                         /\ wpc' = [wpc EXCEPT ![t] = "lock"]
                         /\ wsent' = [wsent EXCEPT ![t] = 0]
                         /\ wret' = [wret EXCEPT ![t] = NoErr]
                         /\ connRet' = [connRet EXCEPT ![t] = <<>>]
         IN  Called(ObjectAt(i), RespondWithAck(ObjectAt(i), a))
    /\ UNCHANGED objs
    /\ UNCHANGED <<respRes, encRespRes>>
    /\ UNCHANGED <<mu, conn, inFlight, lockOrder, attempts>>
    /\ UNCHANGED frameVars

SessionInit == WriteInit

SessionNext ==
    \/ SessionNewObject
    \/ SessionDecodeFrame
    \/ SessionRespondWithAck
    \/ Lock(SessionCaller)
    \/ ConnWriteStart(SessionCaller)
    \/ ConnWriteByte(SessionCaller)
    \/ ConnWriteReturn(SessionCaller)
    \/ ConnWriteError(SessionCaller)
    \/ Unlock(SessionCaller)
    \/ RespondWithAckReturn(SessionCaller)

SessionSpec == SessionInit /\ [][SessionNext]_vars

----------------------------------------------------------------------------
(* The acknowledgments of one object.                                      *)

\* The RespondWithAck calls on the i-th object that assigned its
\* response.ack, and those that went on to Write a response frame.
AckAssignments(i) ==
    { k \in DOMAIN sess : sess[k].op = "ack" /\ sess[k].obj = i /\ sess[k].resp # NilPtr }

AckFrames(i) ==
    { k \in DOMAIN sess : sess[k].op = "ack" /\ sess[k].obj = i /\ sess[k].write }

\* C22: the response.ack of every object starts as unknown (0), and over
\* any sequence of RespondWithAck calls on the object it is assigned at
\* most once and at most one response frame of the object is passed to the
\* transport.
C22_AckSetOnce ==
    \A i \in DOMAIN objs :
        /\ AckAssignments(i) = {} => ObjectAt(i).Response = Ptr(Response(objs[i].UID, AckUnknown))
        /\ Cardinality(AckAssignments(i)) <= 1
        /\ Cardinality(AckFrames(i)) <= 1

----------------------------------------------------------------------------
(* The Response of one object and the other objects.                       *)

\* The ack the last assigning RespondWithAck call on the i-th object was
\* given, AckUnknown when there was none.
LastAck(i) ==
    IF AckAssignments(i) = {} THEN AckUnknown
    ELSE sess[CHOOSE k \in AckAssignments(i) : \A j \in AckAssignments(i) : j <= k].ack

\* C27: every DecodeFrame and every NewObject call gives its object a
\* Response of its own: no two objects hold the same Response, and the
\* Response of an object has the uid of the object and the ack of the last
\* RespondWithAck call on that object (unknown when there was none),
\* whatever was acknowledged on other objects, those decoded from the same
\* bytes with the same responder included.
C27_NoSharedResponse ==
    /\ \A i, j \in DOMAIN objs : i # j => objs[i].Response # objs[j].Response
    /\ \A i \in DOMAIN objs :
          /\ objs[i].Response # NilPtr
          /\ Deref(objs[i].Response) \in DOMAIN heap
          /\ ObjectAt(i).Response = Ptr(Response(objs[i].UID, LastAck(i)))

\* Two objects were decoded from the same bytes with the same responder,
\* the second was acknowledged, its frame went out, and the first still has
\* the ack unknown.
C27_Witness ==
    /\ Len(sess) = 3
    /\ sess[1].op = "decode" /\ sess[1].obj = 1
    /\ sess[2].op = "decode" /\ sess[2].obj = 2
    /\ sess[1].line = sess[2].line /\ sess[1].resp = sess[2].resp
    /\ sess[3].op = "ack" /\ sess[3].obj = 2 /\ sess[3].ack = 255
    /\ ackRet[SessionCaller] = <<[err |-> NoErr, panic |-> FALSE]>>
    /\ ObjectAt(1).Response = Ptr(Response(objs[1].UID, AckUnknown))
    /\ ObjectAt(2).Response = Ptr(Response(objs[1].UID, 255))

----------------------------------------------------------------------------
(* A failed DecodeFrame and what follows it on the same responder.         *)

\* The decodes logged, and the RespondWithAck calls that wrote on r.
Decodes == { k \in DOMAIN sess : sess[k].op = "decode" }

WritesOn(r) == { k \in DOMAIN sess : sess[k].op = "ack" /\ sess[k].write /\ sess[k].resp = Ptr(r) }

\* The goroutine is not inside ConnResponder.Write.
OutsideWrite == wpc[SessionCaller] \in {"idle", "done"}

\* C23: DecodeFrame writes nothing on the transport and leaves the
\* ConnResponder as it was (a connection has bytes and a lock was taken
\* only where RespondWithAck wrote, and no lock is held outside Write);
\* whatever failed before, DecodeFrame of the valid frame returns the
\* object of that frame with the responder it was given, and each of the
\* defective lines its own error; and a Write on the responder after a
\* failed decode goes through: the response frame is what the connection
\* receives last and Write returns nil, unless the transport fails.
C23_PerFrameCorruption ==
    /\ \A r \in Responders :
          /\ WritesOn(r) = {} => (conn[r] = <<>> /\ lockOrder[r] = <<>>)
          /\ Len(lockOrder[r]) = Cardinality({ k \in WritesOn(r) :
                                   k < Len(sess) \/ ~(wpc[SessionCaller] = "lock") })
          /\ OutsideWrite => (mu[r] = <<>> /\ inFlight[r] = {})
    /\ \A k \in Decodes :
          /\ sess[k].line = SessionFrame =>
                /\ sess[k].err = NoErr
                /\ sess[k].obj \in DOMAIN objs
                /\ SameFields(objs[sess[k].obj], SessionObject)
                /\ objs[sess[k].obj].Responder = sess[k].resp
          /\ sess[k].line = Prefix(SessionFrame, Len(SessionFrame) - 1) =>
                (sess[k].obj = 0 /\ sess[k].err.kind = "Unable to parse payload")
          /\ sess[k].line = SessionFrame \o <<0>> =>
                (sess[k].obj = 0 /\ sess[k].err.kind = "unaccounted data in reader")
          /\ sess[k].line = WithVersion(SessionFrame, 2) =>
                (sess[k].obj = 0 /\ sess[k].err = ErrVer("unsupported protocol version", 2))
    /\ (sess # <<>> /\ sess[Len(sess)].op = "ack" /\ sess[Len(sess)].write
          /\ ackPc[SessionCaller] = "done") =>
          LET t == SessionCaller
          IN  /\ ackRet[t] = <<[err |-> Deref(connRet[t]), panic |-> FALSE]>>
              /\ connRet[t] = <<NoErr>> =>
                    /\ Len(conn[wcr[t]]) >= Len(wbuf[t])
                    /\ SubSeq(conn[wcr[t]], Len(conn[wcr[t]]) - Len(wbuf[t]) + 1,
                              Len(conn[wcr[t]]))
                         = ResponseLayout(objs[sess[Len(sess)].obj].UID, sess[Len(sess)].ack)

\* A DecodeFrame failed, the next DecodeFrame on the same responder
\* returned the object of the valid frame, and the acknowledgment of that
\* object was written on the responder and returned nil.
C23_Witness ==
    /\ Len(sess) = 3
    /\ sess[1].op = "decode" /\ sess[1].err # NoErr
    /\ sess[2].op = "decode" /\ sess[2].err = NoErr /\ sess[2].resp = sess[1].resp
    /\ sess[2].line = SessionFrame
    /\ sess[3].op = "ack" /\ sess[3].obj = 1 /\ sess[3].write
    /\ ackRet[SessionCaller] = <<[err |-> NoErr, panic |-> FALSE]>>
    /\ conn[Deref(sess[1].resp)] = ResponseLayout(objs[1].UID, sess[3].ack)

====
